---- MODULE Spec2Model ----
(***************************************************************************)
(* A model of MacCleaner's main process (src/main.js): the RAM cleanup     *)
(* flow (purgeRamSmart, free-ram, deep-clean-ram), the process termination *)
(* guards (quit-process, deep-clean-ram) and the snapshot readers.         *)
(*                                                                         *)
(* JavaScript strings are modelled as sequences of one-character strings,  *)
(* so that toLowerCase, includes, split, join and parseInt are computed    *)
(* the way the code computes them.  Byte counts are plain integers.        *)
(***************************************************************************)
EXTENDS Integers, Sequences, FiniteSets, TLC

(***************************************************************************)
(* Bounds of the model.                                                    *)
(***************************************************************************)
\* The largest process id a request can name (pids above the process table
\* resolve to no process).
MaxPid == 8
\* The longest candidate list deep-clean-ram is given.
MaxCands == 2
\* The largest page count vm_stat reports for "Pages free" and for
\* "Pages inactive".
MaxPages == 1
\* The largest number of candidates past the fifth in a list given to
\* deep-clean-ram.
MaxExtra == 1
\* The largest free percentage memory_pressure reports.
MaxPct == 13
\* The most entries the directories that are cleaned hold together.
MaxEntries == 2

(***************************************************************************)
(* Strings.                                                                *)
(***************************************************************************)
Digits == <<"0", "1", "2", "3", "4", "5", "6", "7", "8", "9">>

UpperCase ==
  <<"A", "B", "C", "D", "E", "F", "G", "H", "I", "J", "K", "L", "M",
    "N", "O", "P", "Q", "R", "S", "T", "U", "V", "W", "X", "Y", "Z">>
LowerCase ==
  <<"a", "b", "c", "d", "e", "f", "g", "h", "i", "j", "k", "l", "m",
    "n", "o", "p", "q", "r", "s", "t", "u", "v", "w", "x", "y", "z">>

\* String.prototype.toLowerCase on one character (of the alphabet in use).
LowerChar(c) ==
  IF \E i \in 1..Len(UpperCase) : UpperCase[i] = c
    THEN LowerCase[CHOOSE i \in 1..Len(UpperCase) : UpperCase[i] = c]
    ELSE c

toLowerCase(s) == [i \in 1..Len(s) |-> LowerChar(s[i])]

\* String.prototype.toUpperCase
UpperChar(c) ==
  IF \E i \in 1..Len(LowerCase) : LowerCase[i] = c
    THEN UpperCase[CHOOSE i \in 1..Len(LowerCase) : LowerCase[i] = c]
    ELSE c

toUpperCase(s) == [i \in 1..Len(s) |-> UpperChar(s[i])]

\* String.prototype.includes
includes(s, p) ==
  \E i \in 0..(Len(s) - Len(p)) : SubSeq(s, i + 1, i + Len(p)) = p

\* /\s/ : the whitespace the inputs of the model contain
IsSpace(c) == c \in {" ", "\t", "\n"}

\* String.prototype.trim
RECURSIVE trimLeft(_)
trimLeft(s) ==
  IF s # <<>> /\ IsSpace(Head(s)) THEN trimLeft(Tail(s)) ELSE s

RECURSIVE trimRight(_)
trimRight(s) ==
  IF s # <<>> /\ IsSpace(s[Len(s)]) THEN trimRight(SubSeq(s, 1, Len(s) - 1)) ELSE s

trim(s) == trimRight(trimLeft(s))

\* s.split(/\s+/) : the pieces between maximal runs of whitespace.  As in
\* JavaScript, a leading or trailing run yields an empty first or last piece,
\* and the empty string yields one empty piece.
RECURSIVE splitWs(_, _, _)
splitWs(s, cur, inRun) ==
  IF s = <<>> THEN <<cur>>
  ELSE IF IsSpace(Head(s))
    THEN IF inRun THEN splitWs(Tail(s), cur, TRUE)
                  ELSE <<cur>> \o splitWs(Tail(s), <<>>, TRUE)
    ELSE splitWs(Tail(s), Append(cur, Head(s)), FALSE)

splitWhitespace(s) == splitWs(s, <<>>, FALSE)

\* Array.prototype.join(' ')
RECURSIVE joinSpace(_)
joinSpace(parts) ==
  IF parts = <<>> THEN <<>>
  ELSE IF Len(parts) = 1 THEN parts[1]
  ELSE parts[1] \o <<" ">> \o joinSpace(Tail(parts))

\* s.split('/').pop() : what follows the last '/', the whole string if none
RECURSIVE splitSlashPop(_, _)
splitSlashPop(s, cur) ==
  IF s = <<>> THEN cur
  ELSE IF Head(s) = "/" THEN splitSlashPop(Tail(s), <<>>)
  ELSE splitSlashPop(Tail(s), Append(cur, Head(s)))

\* A JavaScript value that is a number or a string.
Num(n) == [isNum |-> TRUE, num |-> n, str |-> <<>>]
Str(s) == [isNum |-> FALSE, num |-> 0, str |-> s]

\* String(n) for an integer n
RECURSIVE natToString(_)
natToString(n) ==
  IF n < 10 THEN <<Digits[n + 1]>>
  ELSE natToString(n \div 10) \o <<Digits[(n % 10) + 1]>>

numberToString(n) == IF n < 0 THEN <<"-">> \o natToString(-n) ELSE natToString(n)

IsDigit(c) == \E i \in 1..10 : Digits[i] = c
DigitValue(c) == (CHOOSE i \in 1..10 : Digits[i] = c) - 1

RECURSIVE leadingDigits(_, _, _)
\* the value of the longest prefix of digits; any = some digit was read
leadingDigits(s, acc, any) ==
  IF s # <<>> /\ IsDigit(Head(s))
    THEN leadingDigits(Tail(s), acc * 10 + DigitValue(Head(s)), TRUE)
    ELSE [finite |-> any, v |-> acc]

\* parseInt(value, 10): String(value), leading whitespace skipped, an optional
\* sign, then the longest run of digits; NaN (finite = FALSE) if there is none.
parseInt10(value) ==
  LET s0 == IF value.isNum THEN numberToString(value.num) ELSE value.str
      s1 == trimLeft(s0)
      neg == s1 # <<>> /\ Head(s1) = "-"
      s2 == IF s1 # <<>> /\ Head(s1) \in {"-", "+"} THEN Tail(s1) ELSE s1
      r == leadingDigits(s2, 0, FALSE)
  IN [finite |-> r.finite, v |-> IF neg THEN -r.v ELSE r.v]

(***************************************************************************)
(* The deny-list of process names.                                         *)
(***************************************************************************)
protectedNames ==
  { <<"k", "e", "r", "n", "e", "l", "_", "t", "a", "s", "k">>,
    <<"l", "a", "u", "n", "c", "h", "d">>,
    <<"w", "i", "n", "d", "o", "w", "s", "e", "r", "v", "e", "r">>,
    <<"l", "o", "g", "i", "n", "w", "i", "n", "d", "o", "w">>,
    <<"s", "y", "s", "l", "o", "g", "d">>,
    <<"d", "i", "s", "t", "n", "o", "t", "e", "d">>,
    <<"c", "f", "p", "r", "e", "f", "s", "d">>,
    <<"n", "o", "t", "i", "f", "y", "d">>,
    <<"c", "o", "r", "e", "s", "e", "r", "v", "i", "c", "e", "s", "d">>,
    <<"o", "p", "e", "n", "d", "i", "r", "e", "c", "t", "o", "r", "y", "d">>,
    <<"h", "i", "d", "d">>,
    <<"a", "i", "r", "p", "o", "r", "t", "d">>,
    <<"b", "l", "u", "e", "t", "o", "o", "t", "h", "d">>,
    <<"f", "i", "n", "d", "e", "r">>,
    <<"d", "o", "c", "k">>,
    <<"c", "o", "n", "t", "r", "o", "l", "c", "e", "n", "t", "e", "r">>,
    <<"s", "y", "s", "t", "e", "m", "s", "e", "t", "t", "i", "n", "g", "s">>,
    <<"a", "c", "t", "i", "v", "i", "t", "y", " ", "m", "o", "n", "i", "t", "o", "r">>,
    <<"m", "a", "c", "c", "l", "e", "a", "n", "e", "r">>,
    <<"e", "l", "e", "c", "t", "r", "o", "n">> }

\* A mutant of isProtectedProcessName: the name is compared without being
\* lower-cased first.
isProtectedProcessName_CaseSensitive(name) ==
  \E p \in protectedNames : name = p \/ includes(name, p)

isProtectedProcessName(name) ==
  LET n == toLowerCase(name)
  IN \E p \in protectedNames : n = p \/ includes(n, p)

(***************************************************************************)
(* The environment: the user, the application's own pid, the process       *)
(* table, the memory size.                                                 *)
(***************************************************************************)
\* os.userInfo().username
me == <<"a", "m", "y">>
root == <<"r", "o", "o", "t">>

\* process.pid
OwnPid == 2

\* os.totalmem(): a machine of three 4096-byte pages
totalmem == 12288

\* a process: its owner, its executable path (ps comm=), and whether
\* process.kill(pid, 'SIGTERM') is delivered (TRUE) or throws (FALSE)
Proc(user, comm, killable) == [user |-> user, comm |-> comm, killable |-> killable]

\* The process table when the application starts: launchd, the application
\* itself, another user's Safari, the user's Safari, the user's
\* "Activity Monitor Helper", the window server, and a process of the user
\* that cannot be signaled.  Every pid above 7 names no process.
InitProcs ==
  (1 :> Proc(root, <<"/", "s", "b", "i", "n", "/", "l", "a", "u", "n", "c", "h", "d">>, FALSE))
  @@ (OwnPid :> Proc(me, <<"/", "A", "p", "p", "/", "M", "a", "c", "C", "l", "e", "a", "n", "e", "r">>, TRUE))
  @@ (3 :> Proc(root, <<"/", "A", "p", "p", "/", "S", "a", "f", "a", "r", "i">>, FALSE))
  @@ (4 :> Proc(me, <<"/", "A", "p", "p", "/", "S", "a", "f", "a", "r", "i">>, TRUE))
  @@ (5 :> Proc(me, <<"/", "U", "/", "A", "c", "t", "i", "v", "i", "t", "y", " ", "M", "o", "n", "i", "t", "o", "r", " ", "H", "e", "l", "p", "e", "r">>, TRUE))
  @@ (6 :> Proc(root, <<"/", "S", "/", "W", "i", "n", "d", "o", "w", "S", "e", "r", "v", "e", "r">>, FALSE))
  @@ (7 :> Proc(me, <<"/", "A", "p", "p", "/", "N", "o", "t", "e", "s">>, FALSE))

\* The output of `ps -o user=,comm= -p <pid>`: one line for a running
\* process, nothing for a pid that names none.
psUserComm(table, pid) ==
  IF pid \in DOMAIN table
    THEN table[pid].user \o <<" ", " ", " ">> \o table[pid].comm \o <<"\n">>
    ELSE <<>>

\* The name of a process: the last component of its executable path.
ProcName(p) == splitSlashPop(p.comm, <<>>)

(***************************************************************************)
(* The snapshot readers.                                                   *)
(***************************************************************************)
\* vm_stat's output is modelled by the page counts it prints: a function
\* from the labels present in the output to their counts.  run() returns ''
\* when the command fails, which is the output with no label.
VmKeys == {"wired", "active", "inactive", "compressed", "free"}
VmStatFailed == [k \in {} |-> 0]

getRamSnapshot(vmstat, pagesizeOut) ==
  LET p == parseInt10(pagesizeOut)
      \* parseInt(...) || 16384 : NaN and 0 are falsy
      pageSize == IF p.finite /\ p.v # 0 THEN p.v ELSE 16384
      parsePages(key) == IF key \in DOMAIN vmstat THEN vmstat[key] * pageSize ELSE 0
      wired == parsePages("wired")
      active == parsePages("active")
      inactive == parsePages("inactive")
      compressed == parsePages("compressed")
      free == parsePages("free")
      total == totalmem
      used == total - (free + inactive)
      \* Math.round(x) is floor(x + 1/2)
      rounded == (200 * used + total) \div (2 * total)
      min100 == IF rounded < 100 THEN rounded ELSE 100
      usedPct == IF min100 > 0 THEN min100 ELSE 0
  IN [total |-> total, used |-> used, free |-> free + inactive, wired |-> wired,
      active |-> active, inactive |-> inactive, compressed |-> compressed,
      usedPct |-> usedPct]

\* An optional integer (null or a number).
Null == [isNull |-> TRUE, v |-> 0]
Some(n) == [isNull |-> FALSE, v |-> n]

\* memory_pressure's output is modelled by what the two regular expressions
\* of getMemoryPressure find in it: "pct" (the digits before %) and "status"
\* (the letters after "System-wide memory status:"), each present or not.
PressureFailed == [k \in {} |-> 0]

\* A mutant of getMemoryPressure: 5% free is still critical.
getMemoryPressure_InclusiveThreshold(out) ==
  LET freePct == IF "pct" \in DOMAIN out THEN Some(out["pct"]) ELSE Null
      hasStatus == "status" \in DOMAIN out
      rawStatus == IF hasStatus THEN toUpperCase(out["status"]) ELSE <<>>
      level == IF ~hasStatus THEN "null"
               ELSE IF rawStatus = <<"C", "R", "I", "T", "I", "C", "A", "L">> THEN "critical"
               ELSE IF rawStatus = <<"W", "A", "R", "N", "I", "N", "G">> THEN "warning"
               ELSE IF rawStatus = <<"O", "K">> THEN "normal"
               ELSE "null"
      inferred == IF freePct.isNull THEN "unknown"
                  ELSE IF freePct.v <= 5 THEN "critical"
                  ELSE IF freePct.v < 12 THEN "warning"
                  ELSE "normal"
  IN [level |-> IF level # "null" THEN level ELSE inferred,
      status |-> IF hasStatus THEN rawStatus
                 ELSE IF inferred = "normal" THEN <<"O", "K">>
                 ELSE IF inferred = "warning" THEN <<"W", "A", "R", "N", "I", "N", "G">>
                 ELSE IF inferred = "critical" THEN <<"C", "R", "I", "T", "I", "C", "A", "L">>
                 ELSE <<"U", "N", "K", "N", "O", "W", "N">>,
      freePct |-> freePct]

getMemoryPressure(out) ==
  LET freePct == IF "pct" \in DOMAIN out THEN Some(out["pct"]) ELSE Null
      hasStatus == "status" \in DOMAIN out
      rawStatus == IF hasStatus THEN toUpperCase(out["status"]) ELSE <<>>
      level == IF ~hasStatus THEN "null"
               ELSE IF rawStatus = <<"C", "R", "I", "T", "I", "C", "A", "L">> THEN "critical"
               ELSE IF rawStatus = <<"W", "A", "R", "N", "I", "N", "G">> THEN "warning"
               ELSE IF rawStatus = <<"O", "K">> THEN "normal"
               ELSE "null"
      inferred == IF freePct.isNull THEN "unknown"
                  ELSE IF freePct.v < 5 THEN "critical"
                  ELSE IF freePct.v < 12 THEN "warning"
                  ELSE "normal"
  IN [level |-> IF level # "null" THEN level ELSE inferred,
      status |-> IF hasStatus THEN rawStatus
                 ELSE IF inferred = "normal" THEN <<"O", "K">>
                 ELSE IF inferred = "warning" THEN <<"W", "A", "R", "N", "I", "N", "G">>
                 ELSE IF inferred = "critical" THEN <<"C", "R", "I", "T", "I", "C", "A", "L">>
                 ELSE <<"U", "N", "K", "N", "O", "W", "N">>,
      freePct |-> freePct]

(***************************************************************************)
(* The inputs of the handlers.                                             *)
(***************************************************************************)
\* what a request can give as a process id: a number, or a string
RawPids ==
  {Num(n) : n \in 1..MaxPid} \cup {Str(<<"4", "x">>), Str(<<"x">>)}

RECURSIVE SeqsUpTo(_, _)
SeqsUpTo(S, n) ==
  IF n = 0 THEN {<<>>}
  ELSE LET shorter == SeqsUpTo(S, n - 1)
       IN shorter \cup {Append(q, x) : q \in {r \in shorter : Len(r) = n - 1}, x \in S}

\* the argument of deep-clean-ram: an array of at most MaxCands raw pids, or
\* a value that is not an array
PidsArgs ==
  {[isArray |-> TRUE, items |-> q] : q \in SeqsUpTo(RawPids, MaxCands)}
  \cup {[isArray |-> FALSE, items |-> <<Num(4)>>]}

\* the outputs of vm_stat: every pair of free and inactive page counts up to
\* MaxPages (one page wired, active and compressed), and the failed read
VmStatOutputs ==
  {[k \in VmKeys |-> IF k = "free" THEN f ELSE IF k = "inactive" THEN i ELSE 1] :
     f \in 0..MaxPages, i \in 0..MaxPages}
  \cup {VmStatFailed}

\* the outputs of pagesize: "4096", or '' when the command fails
PagesizeOutputs == {Str(<<"4", "0", "9", "6">>), Str(<<>>)}

\* the outputs of memory_pressure
PressureOutputs ==
  {[k \in {"pct", "status"} |-> IF k = "pct" THEN 50 ELSE <<"O", "K">>],
   [k \in {"pct"} |-> 3],
   PressureFailed}

\* The reads a specification draws from: the outputs of vm_stat, pagesize
\* and memory_pressure, and whether each command may fail.
Reads(vm, ps, pr, vmFail, psFail, prFail) ==
  [vm |-> vm, ps |-> ps, pr |-> pr, vmFail |-> vmFail, psFail |-> psFail, prFail |-> prFail]
AllReads ==
  Reads(VmStatOutputs, PagesizeOutputs,
        {[k \in {"pct", "status"} |-> IF k = "pct" THEN 50 ELSE <<"O", "K">>]},
        BOOLEAN, BOOLEAN, BOOLEAN)
\* the snapshot commands always print the same
OneReading ==
  Reads({[k \in VmKeys |-> 1]},
        {Str(<<"4", "0", "9", "6">>)},
        {[k \in {"pct", "status"} |-> IF k = "pct" THEN 50 ELSE <<"O", "K">>]},
        {FALSE}, {FALSE}, {FALSE})
FewReads ==
  Reads({[k \in VmKeys |-> 1]},
        {Str(<<"4", "0", "9", "6">>)},
        {[k \in {"pct", "status"} |-> IF k = "pct" THEN 50 ELSE <<"O", "K">>]},
        BOOLEAN, {FALSE}, {FALSE})

(***************************************************************************)
(* The state.                                                              *)
(***************************************************************************)
VARIABLES
  procs,          \* the process table: pid -> process
  askpassExists,  \* whether the askpass helper script exists on disk
  handler,        \* the request being served, "idle" if none
  pc,             \* where the handler is
  pids,           \* deep-clean-ram: the argument of the request
  targetPids,     \* deep-clean-ram: the candidates (pids.slice(0, 5))
  next,           \* deep-clean-ram: the index of the next candidate
  stopped,        \* deep-clean-ram: the stopped list
  skipped,        \* deep-clean-ram: the skipped list
  signals,        \* the SIGTERMs sent by this request, with the target as it was
  before,         \* the before snapshot and pressure
  tiers,          \* purgeRamSmart's locals: what each command returned
  metrics,        \* buildRamCleanupMetrics's locals
  log,            \* the external commands and waits of this request, in order
  answers,        \* what the commands of purgeRamSmart and the script write answered
  last,           \* the request served before this one: its answers and outcome
  result,         \* what the handler returned
  appState,       \* "starting" until app.whenReady, then "ready", "quitting" at before-quit
  settingsFile,   \* userData/settings.json
  settings,       \* let settings
  mainWindow,     \* let mainWindow: the window and what it answers, or none
  tray,           \* let tray: the tray and the title it shows, or none
  trayInterval,   \* let trayInterval: the id of the refresh timer, 0 for null
  isSuspended,    \* let isSuspended
  timers,         \* the intervals that are armed: id and period
  files,          \* the file system: the paths that exist
  locked,         \* the paths that cannot be removed or trashed
  flows,          \* two cleanup requests in flight at once: the locals of each
  accesses,       \* what each of them read or wrote outside its locals, while both ran
  sudoCache       \* whether sudo holds a cached credential

\* the variables of the application shell: window, tray, timer and settings
shellVars ==
  <<appState, settingsFile, settings, mainWindow, trayInterval, isSuspended, timers>>

\* the variables of the file system
diskVars == <<files, locked>>

\* the variables of the cleanup requests that run at once
flowVars == <<flows, accesses, sudoCache>>

vars ==
  <<procs, askpassExists, handler, pc, pids, targetPids, next, stopped, skipped,
    signals, before, tiers, metrics, log, answers, last, result, shellVars, tray,
    diskVars, flowVars>>

\* a command of purgeRamSmart that has not run
NotRun == [ran |-> FALSE, success |-> FALSE, error |-> ""]
Ok == [ran |-> TRUE, success |-> TRUE, error |-> ""]
Failed(msg) == [ran |-> TRUE, success |-> FALSE, error |-> msg]

NoTiers ==
  [probe |-> NotRun, noPrompt1 |-> NotRun, auth |-> NotRun, noPrompt2 |-> NotRun,
   fallback |-> NotRun, ret |-> NotRun, method |-> ""]

\* no request argument (pids = [] by default)
NoPids == [isArray |-> TRUE, items |-> <<>>]
NoSnapshot == [taken |-> FALSE]
NoMetrics == [immediate |-> NoSnapshot, stabilized |-> NoSnapshot]
NoResult == [returned |-> FALSE]
\* The paths of the file system are sequences of pieces: the home directory,
\* "/" between components, each directory the handlers name as one piece,
\* and the characters of an entry's name.
home == <<"/Users/me">>
Slash == <<"/">>
userCache == home \o Slash \o <<"Library/Caches">>
userLogs == home \o Slash \o <<"Library/Logs">>
trashDir == home \o Slash \o <<".Trash">>
mailCache == home \o Slash \o <<"Library/Containers/com.apple.mail/Data/Library/Caches">>
xcodeDerived == home \o Slash \o <<"Library/Developer/Xcode/DerivedData">>
iosBackups == home \o Slash \o <<"Library/Application Support/MobileSync/Backup">>
downloads == home \o Slash \o <<"Downloads">>
documents == home \o Slash \o <<"Documents">>
mailApp == <<"/Applications">> \o Slash \o <<"Mail.app">>
mailSupport == home \o Slash \o <<"Library/Application Support">> \o Slash \o <<"Mail">>
mailPrefs == home \o Slash \o <<"Library/Preferences">> \o Slash \o <<"com.mail.plist">>

\* The file system when the application starts: the directories exist, the
\* Downloads and Documents folders hold a file each, Mail is installed and
\* has left a support folder.
InitFiles ==
  {home, userCache, userLogs, trashDir, mailCache, xcodeDerived, iosBackups,
   downloads, downloads \o Slash \o <<"f">>, documents, documents \o Slash \o <<"f">>,
   mailApp, mailSupport}

\* the two requests that run at once, and the locals of one that has not
\* started
Invocations == {1, 2}
IdleFlow ==
  [kind |-> "none", pc |-> "idle", before |-> NoSnapshot, tiers |-> NoTiers,
   metrics |-> NoMetrics, report |-> NoResult]

\* no request was served before
NoLast == [handler |-> "none"]
\* settings.json does not exist
NoFile == [exists |-> FALSE]
\* const DEFAULT_SETTINGS = { refreshProfile: 'balanced' }
DEFAULT_SETTINGS == [refreshProfile |-> Str(<<"b", "a", "l", "a", "n", "c", "e", "d">>)]
\* mainWindow undefined or null, or the window destroyed: 'closed' sets
\* mainWindow to null when the window is destroyed
NoWindow == [exists |-> FALSE]
\* let tray = null
NoTray == [exists |-> FALSE]

Init ==
  /\ procs = InitProcs
  /\ askpassExists \in BOOLEAN
  /\ handler = "idle"
  /\ pc = "idle"
  /\ pids = NoPids
  /\ targetPids = <<>>
  /\ next = 1
  /\ stopped = <<>>
  /\ skipped = <<>>
  /\ signals = {}
  /\ before = NoSnapshot
  /\ tiers = NoTiers
  /\ metrics = NoMetrics
  /\ log = <<>>
  /\ answers = <<>>
  /\ last = NoLast
  /\ result = NoResult
  /\ appState = "starting"
  /\ settingsFile = NoFile
  /\ settings = DEFAULT_SETTINGS
  /\ mainWindow = NoWindow
  /\ tray = NoTray
  /\ trayInterval = 0
  /\ isSuspended = FALSE
  /\ timers = {}
  /\ files = InitFiles
  /\ locked = {}
  /\ flows = [i \in Invocations |-> IdleFlow]
  /\ accesses = {}
  /\ sudoCache = FALSE

Event(ev, ok) == [ev |-> ev, ok |-> ok]

(***************************************************************************)
(* The commands of the authorization tiers.  Each takes what the external  *)
(* command did and gives what the JavaScript function returns.             *)
(***************************************************************************)
\* what an external command did: it succeeded, or it failed (non-zero exit,
\* timeout) with the text of the error (stderr, err.message), which may be
\* empty
CmdOk == [failed |-> FALSE, stderr |-> "", message |-> ""]
CmdFailed(stderr, message) == [failed |-> TRUE, stderr |-> stderr, message |-> message]

\* run(cmd): the output, '' when the command fails
run(cmdFailed, out, empty) == IF cmdFailed THEN empty ELSE out

\* isSudoAuthorized: `sudo -n true`
isSudoAuthorized(cmd) == ~cmd.failed

\* purgeRamWithSudoNoPrompt: `sudo -n purge`
purgeRamWithSudoNoPrompt(cmd) == IF cmd.failed THEN Failed(cmd.message) ELSE Ok

\* purgeRamWithAdminPrompt: osascript's administrator dialog around purge
purgeRamWithAdminPrompt(cmd) == IF cmd.failed THEN Failed(cmd.message) ELSE Ok

\* A mutant of ensureAskpassScript: it throws when the script is already
\* there.
ensureAskpassScript_ThrowsIfExists(exists, writeOk) ==
  IF exists THEN [threw |-> TRUE, exists |-> TRUE, message |-> "EEXIST: file already exists"]
  ELSE IF writeOk THEN [threw |-> FALSE, exists |-> TRUE, message |-> ""]
  ELSE [threw |-> TRUE, exists |-> FALSE, message |-> "EACCES: permission denied"]

\* ensureAskpassScript: the script is written unless it exists; writeFileSync
\* may throw
ensureAskpassScript(exists, writeOk) ==
  IF exists THEN [threw |-> FALSE, exists |-> TRUE, message |-> ""]
  ELSE IF writeOk THEN [threw |-> FALSE, exists |-> TRUE, message |-> ""]
  ELSE [threw |-> TRUE, exists |-> FALSE, message |-> "EACCES: permission denied"]

\* A mutant of authorizeSudoSession: no try/catch around the script creation.
authorizeSudoSession_NoCatch(script, cmd) ==
  IF script.threw THEN [rejected |-> TRUE, value |-> NotRun]
  ELSE IF cmd.failed
    THEN [rejected |-> FALSE,
          value |-> Failed(IF cmd.stderr # "" THEN cmd.stderr ELSE cmd.message)]
    ELSE [rejected |-> FALSE, value |-> Ok]

\* authorizeSudoSession: the promise it returns, resolved with value or
\* rejected.  `sudo -A -v` runs only if the script could be ensured.
authorizeSudoSession(script, cmd) ==
  IF script.threw THEN [rejected |-> FALSE, value |-> Failed(script.message)]
  ELSE IF cmd.failed
    THEN [rejected |-> FALSE,
          value |-> Failed(IF cmd.stderr # "" THEN cmd.stderr ELSE cmd.message)]
    ELSE [rejected |-> FALSE, value |-> Ok]

\* the answer of a command of purgeRamSmart: the command, the tier that ran
\* it and what it did
Answer(cmd, tier, a) ==
  [cmd |-> cmd, tier |-> tier, failed |-> a.failed, stderr |-> a.stderr, message |-> a.message]

\* the answers authorizeSudoSession gets: that of the script write, which is
\* attempted only if the script does not exist, then that of `sudo -A -v`,
\* which runs only if the script could be ensured
AskpassAnswers(exists, writeOk, script, cmd) ==
  (IF exists THEN <<>>
   ELSE <<Answer("writeFileSync", 2,
                 IF writeOk THEN CmdOk ELSE CmdFailed("", "EACCES: permission denied"))>>)
  \o (IF script.threw THEN <<>> ELSE <<Answer("sudo -A -v", 2, cmd)>>)

\* the outcomes of the external commands
ProbeOutcomes == {CmdOk, CmdFailed("", "Command failed: sudo -n true")}
PurgeOutcomes == {CmdOk, CmdFailed("", "Command failed: sudo -n purge")}
AskpassOutcomes ==
  {CmdOk,
   CmdFailed("sudo: no password was provided", "Command failed: sudo -A -v"),
   CmdFailed("", "Command failed: sudo -A -v"),
   CmdFailed("", "")}
DialogOutcomes ==
  {CmdOk, CmdFailed("", "User canceled. (-128)"), CmdFailed("", "")}

(***************************************************************************)
(* purgeRamSmart.  pc runs through "probe", "purge1", "authorize",         *)
(* "purge2", "fallback" and ends in "purged" with tiers.ret set, or in     *)
(* "threw" if an exception escapes.                                        *)
(***************************************************************************)
\* A mutant of afterProbe: the cached purge is attempted whatever the probe
\* said.
afterProbe_AlwaysPurge(authorized) == "purge1"

\* A mutant of afterNoPrompt2: a failed retried purge is tried again.
afterNoPrompt2_Retry(r) == IF r.success THEN "purged" ELSE "purge2"

\* A mutant of afterAuth: the purge is retried whatever the acquisition
\* returned.
afterAuth_AlwaysPurge(r) == "purge2"

\* Mutants of the escalation's branches: a successful cached purge does not
\* return; a failed credential acquisition returns the failure at once
\* ("failed") instead of falling back to the dialog.
afterNoPrompt1_NoReturn(r) == "authorize"
afterAuth_GiveUp(r) == IF r.success THEN "purge2" ELSE "failed"

\* if (isSudoAuthorized()) { ... }
afterProbe(authorized) == IF authorized THEN "purge1" ELSE "authorize"
\* if (noPrompt.success) return { success: true, method: 'sudo-cached' }
afterNoPrompt1(r) == IF r.success THEN "purged" ELSE "authorize"
\* if (auth.success) { ... }
afterAuth(r) == IF r.success THEN "purge2" ELSE "fallback"
\* if (noPrompt.success) return { success: true, method: 'sudo-askpass' }
afterNoPrompt2(r) == IF r.success THEN "purged" ELSE "fallback"

\* fallback.error || auth.error || 'Unable to authorize RAM cleanup'
purgeRamSmartError(fallback, auth) ==
  IF fallback.error # "" THEN fallback.error
  ELSE IF auth.error # "" THEN auth.error
  ELSE "Unable to authorize RAM cleanup"

\* purgeRamSmart's locals once a branch is taken: "purged" returns success
\* tagged with the tier's method, "failed" returns the failure
Taken(t, to, method) ==
  IF to = "purged" THEN [t EXCEPT !.ret = Ok, !.method = method]
  ELSE IF to = "failed"
    THEN [t EXCEPT !.ret = Failed(purgeRamSmartError(t.fallback, t.auth))]
  ELSE t

PcOf(to) == IF to = "failed" THEN "purged" ELSE to

InPurge == handler \in {"free-ram", "deep-clean-ram", "tray-purge"}

\* what the tier actions leave alone
PurgeUnchanged ==
  UNCHANGED <<flowVars, diskVars, shellVars, tray, procs, handler, pids, targetPids, next, stopped, skipped, signals,
              before, metrics, last, result>>

Probe ==
  /\ InPurge /\ pc = "probe"
  /\ \E cmd \in ProbeOutcomes :
       LET authorized == isSudoAuthorized(cmd)
       IN /\ tiers' = [tiers EXCEPT !.probe = IF authorized THEN Ok ELSE Failed("")]
          /\ log' = Append(log, Event("probe", authorized))
          /\ answers' = Append(answers, Answer("sudo -n true", 1, cmd))
          /\ pc' = PcOf(afterProbe(authorized))
  /\ UNCHANGED askpassExists
  /\ PurgeUnchanged

PurgeCached ==
  /\ InPurge /\ pc = "purge1"
  /\ \E cmd \in PurgeOutcomes :
       LET noPrompt == purgeRamWithSudoNoPrompt(cmd)
           to == afterNoPrompt1(noPrompt)
       IN /\ tiers' = Taken([tiers EXCEPT !.noPrompt1 = noPrompt], to, "sudo-cached")
          /\ log' = Append(log, Event("purge", noPrompt.success))
          /\ answers' = Append(answers, Answer("sudo -n purge", 1, cmd))
          /\ pc' = PcOf(to)
  /\ UNCHANGED askpassExists
  /\ PurgeUnchanged

Authorize ==
  /\ InPurge /\ pc = "authorize"
  /\ \E writeOk \in BOOLEAN, cmd \in AskpassOutcomes :
       LET script == ensureAskpassScript(askpassExists, writeOk)
           p == authorizeSudoSession(script, cmd)
       IN /\ askpassExists' = script.exists
          /\ answers' = answers \o AskpassAnswers(askpassExists, writeOk, script, cmd)
          /\ IF p.rejected
               THEN /\ pc' = "threw"
                    /\ log' = log
                    /\ tiers' = tiers
               ELSE /\ tiers' = Taken([tiers EXCEPT !.auth = p.value], afterAuth(p.value), "")
                    /\ log' = Append(log, Event("authorize", p.value.success))
                    /\ pc' = PcOf(afterAuth(p.value))
  /\ PurgeUnchanged

PurgeAuthorized ==
  /\ InPurge /\ pc = "purge2"
  /\ \E cmd \in PurgeOutcomes :
       LET noPrompt == purgeRamWithSudoNoPrompt(cmd)
           to == afterNoPrompt2(noPrompt)
       IN /\ tiers' = Taken([tiers EXCEPT !.noPrompt2 = noPrompt], to, "sudo-askpass")
          /\ log' = Append(log, Event("purge", noPrompt.success))
          /\ answers' = Append(answers, Answer("sudo -n purge", 2, cmd))
          /\ pc' = PcOf(to)
  /\ UNCHANGED askpassExists
  /\ PurgeUnchanged

Fallback ==
  /\ InPurge /\ pc = "fallback"
  /\ \E cmd \in DialogOutcomes :
       LET fallback == purgeRamWithAdminPrompt(cmd)
       IN /\ tiers' = [tiers EXCEPT
                         !.fallback = fallback,
                         !.ret = IF fallback.success THEN Ok
                                 ELSE Failed(purgeRamSmartError(fallback, tiers.auth)),
                         !.method = IF fallback.success THEN "osascript-admin" ELSE @]
          /\ log' = Append(log, Event("dialog", fallback.success))
          /\ answers' = Append(answers, Answer("osascript", 3, cmd))
          /\ pc' = "purged"
  /\ UNCHANGED askpassExists
  /\ PurgeUnchanged

(***************************************************************************)
(* buildRamCleanupMetrics.                                                 *)
(***************************************************************************)
Max0(x) == IF x > 0 THEN x ELSE 0

\* A mutant of freeGainBytes: no clamp.
freeGainBytes_NoClamp(b, a) == a.free - b.free

\* Math.max(0, after.free - before.free)
freeGainBytes(b, a) == Max0(a.free - b.free)
\* Math.max(0, before.used - after.used)
usedDropBytes(b, a) == Max0(b.used - a.used)

\* what the readers make of the three outputs run() gave them; out keeps the
\* outputs next to the values read from them
ReadingOf(vmstat, pagesizeOut, pressureOut) ==
  [taken |-> TRUE,
   out |-> [vmstat |-> vmstat, pagesize |-> pagesizeOut, pressure |-> pressureOut],
   ram |-> getRamSnapshot(vmstat, pagesizeOut),
   pressure |-> getMemoryPressure(pressureOut)]

\* one reading: getRamSnapshot() and getMemoryPressure()
Reading(R) ==
  {ReadingOf(run(vmFailed, vm, VmStatFailed), run(psFailed, ps, Str(<<>>)),
             run(prFailed, pr, PressureFailed)) :
     vm \in R.vm, ps \in R.ps, pr \in R.pr,
     vmFailed \in R.vmFail, psFailed \in R.psFail, prFailed \in R.prFail}

\* updateTray, lines 391-399: nothing without a tray; else the title and the
\* tooltip show the used percentage getRamSnapshot has just read
updateTray(t, reading) ==
  IF ~t.exists THEN t ELSE [t EXCEPT !.title = reading.ram.usedPct]

\* A mutant of metricsStabilized: the stabilized deltas are taken against
\* the immediate snapshot.
metricsStabilized_AgainstImmediate(m, b, reading) ==
  [m EXCEPT !.stabilized = reading,
            !.stabilizedFreeGainBytes = freeGainBytes(m.immediate.ram, reading.ram),
            !.stabilizedUsedDropBytes = usedDropBytes(m.immediate.ram, reading.ram)]

\* lines 311-314: the immediate reading and its deltas
metricsImmediate(b, reading) ==
  [immediate |-> reading,
   immediateFreeGainBytes |-> freeGainBytes(b, reading.ram),
   immediateUsedDropBytes |-> usedDropBytes(b, reading.ram),
   stabilized |-> NoSnapshot,
   stabilizedFreeGainBytes |-> 0,
   stabilizedUsedDropBytes |-> 0]

\* lines 318-321: the stabilized reading and its deltas
metricsStabilized(m, b, reading) ==
  [m EXCEPT !.stabilized = reading,
            !.stabilizedFreeGainBytes = freeGainBytes(b, reading.ram),
            !.stabilizedUsedDropBytes = usedDropBytes(b, reading.ram)]

InCleanup == handler \in {"free-ram", "deep-clean-ram"}

BuildMetricsImmediate(R) ==
  /\ InCleanup /\ pc = "immediate"
  /\ \E reading \in Reading(R) : metrics' = metricsImmediate(before.ram, reading)
  /\ log' = Append(log, Event("immediate", TRUE))
  /\ pc' = "settle"
  /\ UNCHANGED <<flowVars, diskVars, shellVars, tray, answers, last,
                 procs, askpassExists, handler, pids, targetPids, next, stopped, skipped,
                 signals, before, tiers, result>>

\* await sleep(12000), then the stabilized reading
BuildMetricsStabilized(R) ==
  /\ InCleanup /\ pc = "settle"
  /\ \E reading \in Reading(R) : metrics' = metricsStabilized(metrics, before.ram, reading)
  /\ log' = log \o <<Event("sleep 12000", TRUE), Event("stabilized", TRUE)>>
  /\ pc' = "built"
  /\ UNCHANGED <<flowVars, diskVars, shellVars, tray, answers, last,
                 procs, askpassExists, handler, pids, targetPids, next, stopped, skipped,
                 signals, before, tiers, result>>

(***************************************************************************)
(* The results of free-ram and deep-clean-ram.                             *)
(***************************************************************************)
\* { success: false, error: result.error, before, beforePressure }
freeRamFailure(ret, b) ==
  [success |-> FALSE, error |-> ret.error, before |-> b.ram, beforePressure |-> b.pressure]

\* the success result of free-ram (lines 586-599)
freeRamSuccess(b, m) ==
  [success |-> TRUE,
   before |-> b.ram,
   after |-> m.immediate.ram,
   beforePressure |-> b.pressure,
   afterPressure |-> m.immediate.pressure,
   reclaimedBytes |-> m.immediateFreeGainBytes,
   immediateFreeGainBytes |-> m.immediateFreeGainBytes,
   immediateUsedDropBytes |-> m.immediateUsedDropBytes,
   stabilizedFreeGainBytes |-> m.stabilizedFreeGainBytes,
   stabilizedUsedDropBytes |-> m.stabilizedUsedDropBytes,
   stabilized |-> m.stabilized.ram,
   stabilizedPressure |-> m.stabilized.pressure]

\* A mutant of deepCleanFailure: the lists are left out.
deepCleanFailure_NoLists(ret, b, st, sk) == freeRamFailure(ret, b)

\* { success: false, error, before, beforePressure, stopped, skipped }
deepCleanFailure(ret, b, st, sk) ==
  [success |-> FALSE, error |-> ret.error, before |-> b.ram,
   beforePressure |-> b.pressure, stopped |-> st, skipped |-> sk]

\* the success result of deep-clean-ram (lines 650-665)
deepCleanSuccess(b, m, st, sk) ==
  [success |-> TRUE,
   before |-> b.ram,
   after |-> m.immediate.ram,
   beforePressure |-> b.pressure,
   afterPressure |-> m.immediate.pressure,
   reclaimedBytes |-> m.immediateFreeGainBytes,
   stopped |-> st,
   skipped |-> sk,
   immediateFreeGainBytes |-> m.immediateFreeGainBytes,
   immediateUsedDropBytes |-> m.immediateUsedDropBytes,
   stabilizedFreeGainBytes |-> m.stabilizedFreeGainBytes,
   stabilizedUsedDropBytes |-> m.stabilizedUsedDropBytes,
   stabilized |-> m.stabilized.ram,
   stabilizedPressure |-> m.stabilized.pressure]

Returned(r) == [returned |-> TRUE, value |-> r]

(***************************************************************************)
(* free-ram.                                                               *)
(***************************************************************************)
FreeRam(R) ==
  /\ handler = "idle"
  /\ handler' = "free-ram"
  /\ \E reading \in Reading(R) : before' = reading
  /\ log' = <<Event("before", TRUE)>>
  /\ pc' = "probe"
  /\ UNCHANGED <<flowVars, diskVars, shellVars, tray, answers, last,
                 procs, askpassExists, pids, targetPids, next, stopped, skipped, signals,
                 tiers, metrics, result>>

\* A mutant of FreeRamPurged: the metrics are built whatever purgeRamSmart
\* returned.
FreeRamPurged_IgnoresFailure ==
  /\ handler = "free-ram" /\ pc = "purged"
  /\ result' = result
  /\ pc' = "immediate"
  /\ UNCHANGED <<flowVars, diskVars, shellVars, tray, answers, last,
                 procs, askpassExists, handler, pids, targetPids, next, stopped, skipped,
                 signals, before, tiers, metrics, log>>

\* const result = await purgeRamSmart(); if (!result.success) return ...
FreeRamPurged ==
  /\ handler = "free-ram" /\ pc = "purged"
  /\ IF ~tiers.ret.success
       THEN /\ result' = Returned(freeRamFailure(tiers.ret, before))
            /\ pc' = "done"
       ELSE /\ result' = result
            /\ pc' = "immediate"
  /\ UNCHANGED <<flowVars, diskVars, shellVars, tray, answers, last,
                 procs, askpassExists, handler, pids, targetPids, next, stopped, skipped,
                 signals, before, tiers, metrics, log>>

FreeRamReturn ==
  /\ handler = "free-ram" /\ pc = "built"
  /\ result' = Returned(freeRamSuccess(before, metrics))
  /\ log' = Append(log, Event("updateTray", TRUE))
  /\ pc' = "done"
  /\ \E reading \in Reading(FewReads) : tray' = updateTray(tray, reading)
  /\ UNCHANGED <<flowVars, diskVars, shellVars, answers, last,
                 procs, askpassExists, handler, pids, targetPids, next, stopped, skipped,
                 signals, before, tiers, metrics>>

(***************************************************************************)
(* The tray menu's "Free Inactive RAM Now": purgeRamSmart alone.           *)
(***************************************************************************)
TrayPurge ==
  /\ handler = "idle"
  /\ handler' = "tray-purge"
  /\ log' = <<>>
  /\ pc' = "probe"
  /\ UNCHANGED <<flowVars, diskVars, shellVars, tray, answers, last,
                 procs, askpassExists, pids, targetPids, next, stopped, skipped, signals,
                 before, tiers, metrics, result>>

\* if (!result.success) dialog.showErrorBox(...); updateTray()
TrayPurged ==
  /\ handler = "tray-purge" /\ pc = "purged"
  /\ log' = IF tiers.ret.success THEN Append(log, Event("updateTray", TRUE))
            ELSE log \o <<Event("showErrorBox", TRUE), Event("updateTray", TRUE)>>
  /\ pc' = "done"
  /\ \E reading \in Reading(FewReads) : tray' = updateTray(tray, reading)
  /\ UNCHANGED <<flowVars, diskVars, shellVars, answers, last,
                 procs, askpassExists, handler, pids, targetPids, next, stopped, skipped,
                 signals, before, tiers, metrics, result>>

\* The request is over: the renderer has its reply, the locals are gone.
Reply(remember) ==
  /\ handler # "idle" /\ pc = "done"
  /\ last' = IF remember
               THEN [handler |-> handler, answers |-> answers, ret |-> tiers.ret,
                     method |-> tiers.method]
               ELSE last
  /\ answers' = <<>>
  /\ handler' = "idle"
  /\ pc' = "idle"
  /\ pids' = NoPids
  /\ targetPids' = <<>>
  /\ next' = 1
  /\ stopped' = <<>>
  /\ skipped' = <<>>
  /\ signals' = {}
  /\ before' = NoSnapshot
  /\ tiers' = NoTiers
  /\ metrics' = NoMetrics
  /\ log' = <<>>
  /\ result' = NoResult
  /\ UNCHANGED <<flowVars, diskVars, shellVars, tray, procs, askpassExists>>

(***************************************************************************)
(* The termination guards and process.kill.                                *)
(***************************************************************************)
\* A mutant of slice0: the whole list is taken.
slice0_NoCap(items, n) == items

\* pids.slice(0, n)
slice0(items, n) == SubSeq(items, 1, IF Len(items) < n THEN Len(items) ELSE n)

\* owner and name as the handlers parse them from the trimmed ps line:
\* pieces = meta.split(/\s+/), owner = pieces[0],
\* name = pieces.slice(1).join(' ').split('/').pop()
psOwner(meta) == splitWhitespace(meta)[1]
psName(meta) == splitSlashPop(joinSpace(Tail(splitWhitespace(meta))), <<>>)

\* !Number.isFinite(pid) || pid <= 1 || pid === process.pid
invalidPid(p) == ~p.finite \/ p.v <= 1 \/ p.v = OwnPid

\* Mutants of deepCleanVerdict: the name is not checked against the
\* deny-list; the application's own pid is not rejected.
deepCleanVerdict_NoNameCheck(raw, table) ==
  LET p == parseInt10(raw)
      meta == trim(psUserComm(table, p.v))
  IN IF invalidPid(p) THEN [kill |-> FALSE, pid |-> raw, reason |-> "invalid pid", name |-> <<>>]
     ELSE IF meta = <<>> THEN [kill |-> FALSE, pid |-> Num(p.v), reason |-> "not found", name |-> <<>>]
     ELSE IF psOwner(meta) # me
       THEN [kill |-> FALSE, pid |-> Num(p.v), reason |-> "not allowed", name |-> <<>>]
     ELSE [kill |-> TRUE, pid |-> Num(p.v), reason |-> "", name |-> psName(meta)]

deepCleanVerdict_NoOwnPidCheck(raw, table) ==
  LET p == parseInt10(raw)
      meta == trim(psUserComm(table, p.v))
  IN IF ~p.finite \/ p.v <= 1
       THEN [kill |-> FALSE, pid |-> raw, reason |-> "invalid pid", name |-> <<>>]
     ELSE IF meta = <<>> THEN [kill |-> FALSE, pid |-> Num(p.v), reason |-> "not found", name |-> <<>>]
     ELSE IF psOwner(meta) # me \/ isProtectedProcessName(psName(meta))
       THEN [kill |-> FALSE, pid |-> Num(p.v), reason |-> "not allowed", name |-> <<>>]
     ELSE [kill |-> TRUE, pid |-> Num(p.v), reason |-> "", name |-> psName(meta)]

\* deep-clean-ram, lines 611-628: what the guards decide for one candidate
deepCleanVerdict(raw, table) ==
  LET p == parseInt10(raw)
      meta == trim(psUserComm(table, p.v))
  IN IF invalidPid(p) THEN [kill |-> FALSE, pid |-> raw, reason |-> "invalid pid", name |-> <<>>]
     ELSE IF meta = <<>> THEN [kill |-> FALSE, pid |-> Num(p.v), reason |-> "not found", name |-> <<>>]
     ELSE IF psOwner(meta) # me \/ isProtectedProcessName(psName(meta))
       THEN [kill |-> FALSE, pid |-> Num(p.v), reason |-> "not allowed", name |-> <<>>]
     ELSE [kill |-> TRUE, pid |-> Num(p.v), reason |-> "", name |-> psName(meta)]

\* quit-process, lines 516-529: what the guards decide
quitProcessVerdict(raw, table) ==
  LET p == parseInt10(raw)
      meta == trim(psUserComm(table, p.v))
  IN IF invalidPid(p) THEN [kill |-> FALSE, pid |-> p.v, error |-> "Invalid process id"]
     ELSE IF meta = <<>> THEN [kill |-> FALSE, pid |-> p.v, error |-> "Process not found"]
     ELSE IF psOwner(meta) # me
       THEN [kill |-> FALSE, pid |-> p.v, error |-> "Refusing to terminate non-user process"]
     ELSE IF isProtectedProcessName(psName(meta))
       THEN [kill |-> FALSE, pid |-> p.v, error |-> "Protected process cannot be terminated"]
     ELSE [kill |-> TRUE, pid |-> p.v, error |-> ""]

\* A mutant of killThrows: process.kill's exception is not seen.
killThrows_Never(table, pid) == FALSE

\* process.kill(pid, 'SIGTERM') throws when the pid names no process or the
\* signal may not be sent to it
killThrows(table, pid) == pid \notin DOMAIN table \/ ~table[pid].killable

\* a signal sent: the pid and the process it reached
Signal(table, pid, by) ==
  IF pid \in DOMAIN table
    THEN [pid |-> pid, running |-> TRUE, user |-> table[pid].user,
          comm |-> table[pid].comm, by |-> by]
    ELSE [pid |-> pid, running |-> FALSE, user |-> <<>>, comm |-> <<>>, by |-> by]

(***************************************************************************)
(* deep-clean-ram.                                                         *)
(***************************************************************************)
DeepCleanRam(R, Args) ==
  /\ handler = "idle"
  /\ handler' = "deep-clean-ram"
  /\ \E reading \in Reading(R) : before' = reading
  /\ \E arg \in Args :
       /\ pids' = arg
       /\ targetPids' = IF arg.isArray THEN slice0(arg.items, 5) ELSE <<>>
  /\ next' = 1
  /\ stopped' = <<>>
  /\ skipped' = <<>>
  /\ log' = <<Event("before", TRUE)>>
  /\ pc' = "loop"
  /\ UNCHANGED <<flowVars, diskVars, shellVars, tray, answers, last,
                 procs, askpassExists, signals, tiers, metrics, result>>

\* one turn of the loop over targetPids
DeepCleanCandidate ==
  /\ handler = "deep-clean-ram" /\ pc = "loop"
  /\ next <= Len(targetPids)
  /\ LET raw == targetPids[next]
         v == deepCleanVerdict(raw, procs)
     IN IF ~v.kill
          THEN /\ skipped' = Append(skipped, [pid |-> v.pid, reason |-> v.reason])
               /\ UNCHANGED <<stopped, signals, log>>
          ELSE IF killThrows(procs, v.pid.num)
            THEN /\ skipped' = Append(skipped, [pid |-> v.pid, reason |-> "termination failed"])
                 /\ log' = Append(log, Event("kill", FALSE))
                 /\ UNCHANGED <<stopped, signals>>
            ELSE /\ stopped' = Append(stopped, [pid |-> v.pid.num, name |-> v.name])
                 /\ signals' = signals \cup {Signal(procs, v.pid.num, "deep-clean-ram")}
                 /\ log' = Append(log, Event("kill", TRUE))
                 /\ UNCHANGED skipped
  /\ next' = next + 1
  /\ UNCHANGED <<flowVars, diskVars, shellVars, tray, answers, last,
                 procs, askpassExists, handler, pc, pids, targetPids, before, tiers,
                 metrics, result>>

\* A mutant of DeepCleanGrace: the handler goes on only once every process
\* it signaled has exited.
DeepCleanGrace_WaitsForExit ==
  /\ handler = "deep-clean-ram" /\ pc = "loop"
  /\ next > Len(targetPids)
  /\ \A i \in 1..Len(stopped) : stopped[i].pid \notin DOMAIN procs
  /\ log' = Append(log, Event("wait 1200", TRUE))
  /\ pc' = "probe"
  /\ UNCHANGED <<flowVars, diskVars, shellVars, tray, answers, last,
                 procs, askpassExists, handler, pids, targetPids, next, stopped, skipped,
                 signals, before, tiers, metrics, result>>

\* A mutant of DeepCleanGrace: purgeRamSmart is called without the wait.
DeepCleanGrace_NoWait ==
  /\ handler = "deep-clean-ram" /\ pc = "loop"
  /\ next > Len(targetPids)
  /\ pc' = "probe"
  /\ UNCHANGED <<flowVars, diskVars, shellVars, tray, answers, last, log,
                 procs, askpassExists, handler, pids, targetPids, next, stopped, skipped,
                 signals, before, tiers, metrics, result>>

\* await new Promise(r => setTimeout(r, 1200)), then purgeRamSmart
DeepCleanGrace ==
  /\ handler = "deep-clean-ram" /\ pc = "loop"
  /\ next > Len(targetPids)
  /\ log' = Append(log, Event("wait 1200", TRUE))
  /\ pc' = "probe"
  /\ UNCHANGED <<flowVars, diskVars, shellVars, tray, answers, last,
                 procs, askpassExists, handler, pids, targetPids, next, stopped, skipped,
                 signals, before, tiers, metrics, result>>

DeepCleanPurged ==
  /\ handler = "deep-clean-ram" /\ pc = "purged"
  /\ IF ~tiers.ret.success
       THEN /\ result' = Returned(deepCleanFailure(tiers.ret, before, stopped, skipped))
            /\ pc' = "done"
       ELSE /\ result' = result
            /\ pc' = "immediate"
  /\ UNCHANGED <<flowVars, diskVars, shellVars, tray, answers, last,
                 procs, askpassExists, handler, pids, targetPids, next, stopped, skipped,
                 signals, before, tiers, metrics, log>>

DeepCleanReturn ==
  /\ handler = "deep-clean-ram" /\ pc = "built"
  /\ result' = Returned(deepCleanSuccess(before, metrics, stopped, skipped))
  /\ log' = Append(log, Event("updateTray", TRUE))
  /\ pc' = "done"
  /\ \E reading \in Reading(FewReads) : tray' = updateTray(tray, reading)
  /\ UNCHANGED <<flowVars, diskVars, shellVars, answers, last,
                 procs, askpassExists, handler, pids, targetPids, next, stopped, skipped,
                 signals, before, tiers, metrics>>

(***************************************************************************)
(* quit-process.                                                           *)
(***************************************************************************)
QuitProcess(Raws) ==
  /\ handler = "idle"
  /\ handler' = "quit-process"
  /\ \E raw \in Raws :
       LET v == quitProcessVerdict(raw, procs)
       IN /\ targetPids' = <<raw>>
          /\ IF ~v.kill
               THEN /\ result' = Returned([success |-> FALSE, error |-> v.error])
                    /\ pc' = "done"
                    /\ log' = <<>>
                    /\ signals' = signals
               ELSE IF killThrows(procs, v.pid)
                 THEN /\ result' = Returned([success |-> FALSE, error |-> "kill EPERM"])
                      /\ pc' = "done"
                      /\ log' = <<Event("kill", FALSE)>>
                      /\ signals' = signals
                 ELSE /\ result' = result
                      /\ pc' = "wait"
                      /\ log' = <<Event("kill", TRUE)>>
                      /\ signals' = signals \cup {Signal(procs, v.pid, "quit-process")}
  /\ UNCHANGED <<flowVars, diskVars, shellVars, tray, answers, last,
                 procs, askpassExists, pids, next, stopped, skipped, before, tiers, metrics>>

\* A mutant of QuitProcessCheck: the exit is not verified.
QuitProcessCheck_NoCheck ==
  /\ handler = "quit-process" /\ pc = "wait"
  /\ result' = Returned([success |-> TRUE, error |-> ""])
  /\ log' = Append(log, Event("wait 1200", TRUE))
  /\ pc' = "done"
  /\ UNCHANGED <<flowVars, diskVars, shellVars, tray, answers, last,
                 procs, askpassExists, handler, pids, targetPids, next, stopped, skipped,
                 signals, before, tiers, metrics>>

\* after the 1200 ms wait: `ps -p <pid> -o pid=` tells whether it is alive
QuitProcessCheck ==
  /\ handler = "quit-process" /\ pc = "wait"
  /\ LET pid == parseInt10(targetPids[1]).v
         alive == pid \in DOMAIN procs
     IN result' = IF alive
                    THEN Returned([success |-> FALSE, error |-> "Process did not exit in time"])
                    ELSE Returned([success |-> TRUE, error |-> ""])
  /\ log' = Append(log, Event("wait 1200", TRUE))
  /\ pc' = "done"
  /\ UNCHANGED <<flowVars, diskVars, shellVars, tray, answers, last,
                 procs, askpassExists, handler, pids, targetPids, next, stopped, skipped,
                 signals, before, tiers, metrics>>

(***************************************************************************)
(* get-ram-processes.                                                      *)
(***************************************************************************)
\* the resident set size ps prints for a process, in KiB
psRss(pid) == 1024 * pid

\* one line of `ps -axo pid=,rss=,user=,comm=`
psAxLine(table, pid) ==
  <<" ", " ">> \o natToString(pid) \o <<" ">> \o natToString(psRss(pid)) \o <<" ">>
  \o table[pid].user \o <<" ", " ", " ">> \o table[pid].comm

\* the lines of ps's output in the order of the pids; '' alone when ps fails
RECURSIVE psAxLines(_, _, _)
psAxLines(table, pid, upTo) ==
  IF pid > upTo THEN <<>>
  ELSE (IF pid \in DOMAIN table THEN <<psAxLine(table, pid)>> ELSE <<>>)
       \o psAxLines(table, pid + 1, upTo)

\* A mutant of ramProcessOf: the owner of the process is not looked at.
ramProcessOf_AnyUser(line) ==
  LET parts == splitWhitespace(trim(line))
      pid == parseInt10(Str(parts[1]))
      mem == parseInt10(Str(parts[2]))
      user == parts[3]
      cmd == joinSpace(SubSeq(parts, 4, Len(parts)))
      name == splitSlashPop(cmd, <<>>)
  IN IF Len(parts) < 4 THEN [isNull |-> TRUE]
     ELSE IF ~pid.finite \/ ~mem.finite \/ name = <<>> THEN [isNull |-> TRUE]
     ELSE [isNull |-> FALSE, pid |-> pid.v, mem |-> mem.v * 1024, user |-> user,
           cmd |-> cmd, name |-> name,
           canQuit |-> pid.v # OwnPid /\ ~isProtectedProcessName(name)]

\* what the map callback of get-ram-processes makes of one line: null, or
\* the process with its canQuit mark
ramProcessOf(line) ==
  LET parts == splitWhitespace(trim(line))
      pid == parseInt10(Str(parts[1]))
      mem == parseInt10(Str(parts[2]))
      user == parts[3]
      cmd == joinSpace(SubSeq(parts, 4, Len(parts)))
      name == splitSlashPop(cmd, <<>>)
  IN IF Len(parts) < 4 THEN [isNull |-> TRUE]
     ELSE IF ~pid.finite \/ ~mem.finite \/ name = <<>> THEN [isNull |-> TRUE]
     ELSE [isNull |-> FALSE, pid |-> pid.v, mem |-> mem.v * 1024, user |-> user,
           cmd |-> cmd, name |-> name,
           canQuit |-> user = me /\ pid.v # OwnPid /\ ~isProtectedProcessName(name)]

\* .filter(p => p && p.mem > 1024 * 1024)
RECURSIVE filterBigProcesses(_)
filterBigProcesses(ps) ==
  IF ps = <<>> THEN <<>>
  ELSE (IF ~Head(ps).isNull /\ Head(ps).mem > 1024 * 1024 THEN <<Head(ps)>> ELSE <<>>)
       \o filterBigProcesses(Tail(ps))

\* .sort((a, b) => b.mem - a.mem): by mem, largest first, equal ones in
\* their order
RECURSIVE insertByMem(_, _)
insertByMem(sorted, p) ==
  IF sorted = <<>> THEN <<p>>
  ELSE IF Head(sorted).mem >= p.mem THEN <<Head(sorted)>> \o insertByMem(Tail(sorted), p)
  ELSE <<p>> \o sorted
RECURSIVE sortByMem(_)
sortByMem(ps) ==
  IF ps = <<>> THEN <<>>
  ELSE insertByMem(sortByMem(SubSeq(ps, 1, Len(ps) - 1)), ps[Len(ps)])

\* the reply of get-ram-processes given the output of ps (memStr, the mem
\* as text, is left out)
getRamProcesses(lines) ==
  slice0(sortByMem(filterBigProcesses([i \in 1..Len(lines) |-> ramProcessOf(lines[i])])), 10)

GetRamProcesses ==
  /\ handler = "idle"
  /\ handler' = "get-ram-processes"
  /\ \E psFailed \in BOOLEAN :
       result' = Returned(getRamProcesses(run(psFailed, psAxLines(procs, 0, MaxPid), <<<<>>>>)))
  /\ pc' = "done"
  /\ log' = <<>>
  /\ UNCHANGED <<flowVars, diskVars, shellVars, tray, answers, last,
                 procs, askpassExists, pids, targetPids, next, stopped, skipped, signals,
                 before, tiers, metrics>>

(***************************************************************************)
(* The environment: processes start, and a process that was sent SIGTERM   *)
(* may exit.                                                               *)
(***************************************************************************)
\* the processes that may start: of the user or of root, with a plain name,
\* a deny-listed name in another case, a name with a space and no path
SpawnProcs ==
  {Proc(u, c, TRUE) :
     u \in {me, root},
     c \in {<<"/", "A", "p", "p", "/", "M", "a", "i", "l">>,
            <<"/", "S", "/", "D", "o", "c", "k">>,
            <<"m", "y", " ", "f", "i", "n", "d", "e", "r">>}}

\* a process starts under the highest pid, when that pid is free
ProcessSpawn ==
  /\ \E pid \in {MaxPid} \ DOMAIN procs, p \in SpawnProcs :
       procs' = (pid :> p) @@ procs
  /\ UNCHANGED <<flowVars, diskVars, shellVars, tray, askpassExists, handler, pc, pids, targetPids, next,
                 stopped, skipped, signals, before, tiers, metrics, log, answers, last,
                 result>>

ProcessExit ==
  /\ \E s \in signals :
       /\ s.pid \in DOMAIN procs
       /\ procs' = [q \in DOMAIN procs \ {s.pid} |-> procs[q]]
  /\ UNCHANGED <<flowVars, diskVars, shellVars, tray, answers, last,
                 askpassExists, handler, pc, pids, targetPids, next, stopped, skipped,
                 signals, before, tiers, metrics, log, answers, last, result>>

(***************************************************************************)
(* The application shell: settings, window, tray and its refresh timer.    *)
(***************************************************************************)
realTime == Str(<<"r", "e", "a", "l", "-", "t", "i", "m", "e">>)
balanced == Str(<<"b", "a", "l", "a", "n", "c", "e", "d">>)
powerSaver == Str(<<"p", "o", "w", "e", "r", "-", "s", "a", "v", "e", "r">>)

\* values that are no refresh profile: another name, a profile in another
\* case, the empty string, a number
OtherValues ==
  {Str(<<"t", "u", "r", "b", "o">>), Str(<<"B", "a", "l", "a", "n", "c", "e", "d">>),
   Str(<<>>), Num(5)}
ProfileValues == {realTime, balanced, powerSaver} \cup OtherValues

\* A mutant of normalizeRefreshProfile: the value is taken as it is.
normalizeRefreshProfile_AsIs(value) == value

normalizeRefreshProfile(value) ==
  IF value = realTime \/ value = balanced \/ value = powerSaver THEN value
  ELSE DEFAULT_SETTINGS.refreshProfile

getRefreshProfile(set) == normalizeRefreshProfile(set.refreshProfile)

\* what settings.json may hold: text that is no JSON, JSON that is no object
\* (null, a number), an object without refreshProfile, an object with one
JsonFile(valid, isObject, has, value) ==
  [exists |-> TRUE, valid |-> valid, isObject |-> isObject, has |-> has,
   refreshProfile |-> value]
SettingsFiles ==
  {NoFile, JsonFile(FALSE, FALSE, FALSE, Num(0)), JsonFile(TRUE, FALSE, FALSE, Num(0)),
   JsonFile(TRUE, TRUE, FALSE, Num(0))}
  \cup {JsonFile(TRUE, TRUE, TRUE, v) : v \in ProfileValues}

\* lines 20-29: no file leaves settings alone, text that does not parse
\* gives the defaults, what parses is spread over the defaults
loadSettings(set, file) ==
  IF ~file.exists THEN set
  ELSE IF ~file.valid THEN DEFAULT_SETTINGS
  ELSE IF file.isObject /\ file.has THEN [refreshProfile |-> file.refreshProfile]
  ELSE DEFAULT_SETTINGS

\* lines 31-35: JSON.stringify(settings) written to the file, a failed write
\* swallowed
saveSettings(set, file, writeOk) ==
  IF writeOk THEN JsonFile(TRUE, TRUE, TRUE, set.refreshProfile) ELSE file

\* a window as new BrowserWindow leaves it: shown, focused or not
Window(visible, minimized, focused) ==
  [exists |-> TRUE, visible |-> visible, minimized |-> minimized, focused |-> focused]

schedule(profile) ==
  IF profile = realTime THEN [focused |-> 5000, visible |-> 8000, hidden |-> 15000]
  ELSE IF profile = powerSaver THEN [focused |-> 15000, visible |-> 25000, hidden |-> 45000]
  ELSE [focused |-> 10000, visible |-> 15000, hidden |-> 30000]

getTrayRefreshMs(susp, set, win) ==
  IF susp THEN 60000
  ELSE IF ~win.exists THEN schedule(getRefreshProfile(set)).hidden
  ELSE IF win.visible /\ ~win.minimized /\ win.focused
    THEN schedule(getRefreshProfile(set)).focused
  ELSE IF win.visible /\ ~win.minimized THEN schedule(getRefreshProfile(set)).visible
  ELSE schedule(getRefreshProfile(set)).hidden

\* clearInterval(id)
clearInterval(armed, id) == {t \in armed : t.id # id}
\* setInterval(updateTray, ms): a timer under an id no armed timer has
setInterval(armed, ms) ==
  LET id == CHOOSE n \in 1..(Cardinality(armed) + 1) : \A t \in armed : t.id # n
  IN [id |-> id, armed |-> armed \cup {[id |-> id, ms |-> ms]}]

\* A mutant of resetTrayRefreshTimer: the timer that runs is not cleared.
resetTrayRefreshTimer_NoClear(t, interval, susp, set, win, armed) ==
  IF ~t.exists \/ susp THEN [trayInterval |-> 0, timers |-> armed]
  ELSE LET new == setInterval(armed, getTrayRefreshMs(susp, set, win))
       IN [trayInterval |-> new.id, timers |-> new.armed]

\* lines 415-422: trayInterval and the armed timers after the call
resetTrayRefreshTimer(t, interval, susp, set, win, armed) ==
  LET cleared == IF interval # 0 THEN clearInterval(armed, interval) ELSE armed
  IN IF ~t.exists \/ susp THEN [trayInterval |-> 0, timers |-> cleared]
     ELSE LET new == setInterval(cleared, getTrayRefreshMs(susp, set, win))
          IN [trayInterval |-> new.id, timers |-> new.armed]

\* the call, on the state the handler has made
ResetTimer(t, susp, set, win) ==
  LET r == resetTrayRefreshTimer(t, trayInterval, susp, set, win, timers)
  IN /\ trayInterval' = r.trayInterval
     /\ timers' = r.timers

\* the handlers of the shell touch nothing of the requests
RequestsUnchanged ==
  UNCHANGED <<flowVars, diskVars, procs, askpassExists, handler, pc, pids, targetPids, next, stopped,
              skipped, signals, before, tiers, metrics, log, answers, last, result>>

\* settings.json as an earlier run or the user left it
SettingsFileLeft ==
  /\ appState = "starting"
  /\ \E file \in SettingsFiles \ {settingsFile} : settingsFile' = file
  /\ UNCHANGED <<appState, settings, mainWindow, tray, trayInterval, isSuspended, timers>>
  /\ RequestsUnchanged

\* app.whenReady, lines 98-112: loadSettings, createWindow, createTray (a
\* tray only on darwin), and the power and activate handlers registered
WhenReady ==
  /\ appState = "starting"
  /\ appState' = "ready"
  /\ settings' = loadSettings(settings, settingsFile)
  /\ \E focused \in BOOLEAN, darwin \in BOOLEAN, reading \in Reading(FewReads) :
       /\ mainWindow' = Window(TRUE, FALSE, focused)
       /\ tray' = IF darwin THEN updateTray([exists |-> TRUE, title |-> 0], reading)
                  ELSE tray
       /\ ResetTimer(tray', isSuspended, settings', mainWindow')
  /\ UNCHANGED <<settingsFile, isSuspended>>
  /\ RequestsUnchanged

\* a window event whose handler is resetTrayRefreshTimer(), lines 78-83
WindowEvent(win) ==
  /\ appState = "ready"
  /\ mainWindow' = win
  /\ ResetTimer(tray, isSuspended, settings, win)
  /\ UNCHANGED <<appState, settingsFile, settings, tray, isSuspended>>
  /\ RequestsUnchanged

WindowFocus ==
  /\ mainWindow.exists /\ mainWindow.visible /\ ~mainWindow.minimized /\ ~mainWindow.focused
  /\ WindowEvent([mainWindow EXCEPT !.focused = TRUE])

WindowBlur ==
  /\ mainWindow.exists /\ mainWindow.focused
  /\ WindowEvent([mainWindow EXCEPT !.focused = FALSE])

WindowShow ==
  /\ mainWindow.exists /\ ~mainWindow.visible
  /\ WindowEvent([mainWindow EXCEPT !.visible = TRUE])

WindowHide ==
  /\ mainWindow.exists /\ mainWindow.visible
  /\ WindowEvent([mainWindow EXCEPT !.visible = FALSE, !.focused = FALSE])

WindowMinimize ==
  /\ mainWindow.exists /\ mainWindow.visible /\ ~mainWindow.minimized
  /\ WindowEvent([mainWindow EXCEPT !.minimized = TRUE, !.focused = FALSE])

WindowRestore ==
  /\ mainWindow.exists /\ mainWindow.minimized
  /\ WindowEvent([mainWindow EXCEPT !.minimized = FALSE])

\* 'closed', lines 74-77: mainWindow = null; resetTrayRefreshTimer()
WindowClosed ==
  /\ mainWindow.exists
  /\ WindowEvent(NoWindow)

\* createWindow, lines 46-84, called by showMainWindow and by 'activate'
\* when there is no window: the new window is shown, and no timer is reset
CreateWindow ==
  /\ appState = "ready"
  /\ ~mainWindow.exists
  /\ \E focused \in BOOLEAN : mainWindow' = Window(TRUE, FALSE, focused)
  /\ UNCHANGED <<appState, settingsFile, settings, tray, trayInterval, isSuspended, timers>>
  /\ RequestsUnchanged

\* powerMonitor 'suspend', lines 102-105
Suspend ==
  /\ appState = "ready" /\ ~isSuspended
  /\ isSuspended' = TRUE
  /\ ResetTimer(tray, TRUE, settings, mainWindow)
  /\ UNCHANGED <<appState, settingsFile, settings, mainWindow, tray>>
  /\ RequestsUnchanged

\* powerMonitor 'resume', lines 106-110
Resume ==
  /\ appState = "ready" /\ isSuspended
  /\ isSuspended' = FALSE
  /\ \E reading \in Reading(FewReads) : tray' = updateTray(tray, reading)
  /\ ResetTimer(tray', FALSE, settings, mainWindow)
  /\ UNCHANGED <<appState, settingsFile, settings, mainWindow>>
  /\ RequestsUnchanged

\* the timer that is armed fires: updateTray()
TimerFires ==
  /\ appState = "ready"
  /\ timers # {}
  /\ \E reading \in Reading(FewReads) : tray' = updateTray(tray, reading)
  /\ UNCHANGED shellVars
  /\ RequestsUnchanged

\* lines 432-437
setRefreshProfile(profile, writeOk, reading) ==
  /\ settings' = [settings EXCEPT !.refreshProfile = normalizeRefreshProfile(profile)]
  /\ settingsFile' = saveSettings(settings', settingsFile, writeOk)
  /\ ResetTimer(tray, isSuspended, settings', mainWindow)
  /\ tray' = updateTray(tray, reading)

\* the tray menu's "Refresh Mode" items, lines 365-383
TrayRefreshMode ==
  /\ appState = "ready" /\ tray.exists
  /\ \E profile \in {realTime, balanced, powerSaver}, writeOk \in BOOLEAN,
        reading \in Reading(FewReads) :
       setRefreshProfile(profile, writeOk, reading)
  /\ UNCHANGED <<appState, mainWindow, isSuspended>>
  /\ RequestsUnchanged

\* set-refresh-profile, lines 485-488
SetRefreshProfile ==
  /\ appState = "ready" /\ handler = "idle"
  /\ handler' = "set-refresh-profile"
  /\ \E profile \in ProfileValues, writeOk \in BOOLEAN, reading \in Reading(FewReads) :
       /\ setRefreshProfile(profile, writeOk, reading)
       /\ pids' = profile
  /\ result' = Returned([success |-> TRUE, refreshProfile |-> getRefreshProfile(settings')])
  /\ pc' = "done"
  /\ log' = <<>>
  /\ UNCHANGED <<appState, mainWindow, isSuspended>>
  /\ UNCHANGED <<flowVars, diskVars, procs, askpassExists, targetPids, next, stopped, skipped,
                 signals, before, tiers, metrics, answers, last>>

\* get-settings, lines 481-483
GetSettings ==
  /\ appState = "ready" /\ handler = "idle"
  /\ handler' = "get-settings"
  /\ result' = Returned([settings EXCEPT !.refreshProfile = getRefreshProfile(settings)])
  /\ pc' = "done"
  /\ log' = <<>>
  /\ UNCHANGED <<flowVars, diskVars, shellVars, tray>>
  /\ UNCHANGED <<procs, askpassExists, pids, targetPids, next, stopped, skipped, signals,
                 before, tiers, metrics, answers, last>>

\* 'before-quit', lines 115-117: the timer is cleared, trayInterval is kept
BeforeQuit ==
  /\ appState = "ready"
  /\ appState' = "quitting"
  /\ timers' = IF trayInterval # 0 THEN clearInterval(timers, trayInterval) ELSE timers
  /\ UNCHANGED <<settingsFile, settings, mainWindow, tray, trayInterval, isSuspended>>
  /\ RequestsUnchanged

(***************************************************************************)
(* The file system, and `rm -rf "<path>"` as the shell runs it.            *)
(***************************************************************************)
\* f is t or lies below t
under(f, t) ==
  /\ Len(f) >= Len(t)
  /\ SubSeq(f, 1, Len(t)) = t
  /\ Len(f) = Len(t) \/ f[Len(t) + 1] = "/"

\* f is an entry of the directory d
isChild(f, d) ==
  /\ Len(f) > Len(d) + 1
  /\ under(f, d)
  /\ \A i \in (Len(d) + 2)..Len(f) : f[i] # "/"

\* fs.readdirSync(d): the names of the entries of d
readdirSync(fs, d) == {SubSeq(f, Len(d) + 2, Len(f)) : f \in {g \in fs : isChild(g, d)}}

\* a path can be removed when nothing at or below it is locked
removable(lk, f) == \A l \in lk : ~under(l, f)

\* rm -rf of the targets: what can be removed at or below them is gone
rmRf(fs, lk, ts) == fs \ {f \in fs : removable(lk, f) /\ \E t \in ts : under(f, t)}

\* The words the shell makes of a command line: a double quote opens and
\* closes a quoted stretch, a space outside quotes ends a word, and a quote
\* left open is a syntax error.  A word is its text and whether any of it
\* was quoted.
RECURSIVE shWords(_, _, _, _, _, _)
shWords(rest, inQuote, text, started, quoted, words) ==
  LET ended == IF started THEN Append(words, [text |-> text, quoted |-> quoted]) ELSE words
  IN IF rest = <<>> THEN [error |-> inQuote, words |-> ended]
     ELSE IF Head(rest) = "\""
       THEN shWords(Tail(rest), ~inQuote, text, TRUE, TRUE, words)
     ELSE IF Head(rest) = " " /\ ~inQuote
       THEN shWords(Tail(rest), FALSE, <<>>, FALSE, FALSE, ended)
     ELSE shWords(Tail(rest), inQuote, Append(text, Head(rest)), TRUE, quoted, words)

\* tilde expansion: the unquoted word ~ is the home directory
shExpand(word) == IF word.text = <<"~">> /\ ~word.quoted THEN home ELSE word.text

\* `rm -rf "${path.join(p, item)}"`, line 779
rmCommand(p, item) == <<"rm", " ", "-rf", " ", "\"">> \o p \o Slash \o item \o <<"\"">>

\* the paths a command line hands to rm -rf; none when the shell rejects it
rmTargets(line) ==
  LET parsed == shWords(line, FALSE, <<>>, FALSE, FALSE, <<>>)
  IN IF parsed.error \/ Len(parsed.words) < 3 THEN {}
     ELSE {shExpand(parsed.words[i]) : i \in 3..Len(parsed.words)} \ {<<>>}

\* shell.trashItem(p): the path moves into the Trash under its last name;
\* rejected when the path does not exist or cannot be removed
trashItem(fs, lk, p) ==
  IF p \notin fs \/ ~removable(lk, p) THEN [ok |-> FALSE, files |-> fs]
  ELSE [ok |-> TRUE,
        files |-> (fs \ {f \in fs : under(f, p)}) \cup {trashDir \o Slash \o <<p[Len(p)]>>}]

(***************************************************************************)
(* clean-disk-item.                                                        *)
(***************************************************************************)
\* const targets, lines 756-763
targets ==
  [user_cache |-> [kind |-> "paths", paths |-> <<userCache>>],
   system_logs |-> [kind |-> "paths", paths |-> <<userLogs>>],
   trash |-> [kind |-> "cmd", paths |-> <<>>],
   mail_cache |-> [kind |-> "paths", paths |-> <<mailCache>>],
   xcode_derived |-> [kind |-> "paths", paths |-> <<xcodeDerived>>],
   ios_backups |-> [kind |-> "paths", paths |-> <<iosBackups>>]]

\* what an object literal inherits from Object.prototype
ObjectPrototypeKeys ==
  {"constructor", "__proto__", "toString", "valueOf", "hasOwnProperty", "isPrototypeOf",
   "propertyIsEnumerable", "toLocaleString"}

\* targets[id], line 765: an own property; else an inherited one, an object
\* or a function without cmd, paths or path, so that paths is [undefined],
\* here the empty path; else undefined
targetOf(id) ==
  IF id \in DOMAIN targets THEN targets[id]
  ELSE IF id \in ObjectPrototypeKeys THEN [kind |-> "paths", paths |-> <<<<>>>>]
  ELSE [kind |-> "undefined", paths |-> <<>>]

\* the ids a request may carry: the six of targets, the scan-only categories
\* of get-disk-junk, a property every object has, and a name that is none
CategoryIds ==
  DOMAIN targets \cup {"language_files", "app_downloads", "constructor", "bogus"}

\* lines 773-784: each path that exists is read and each entry handed to
\* rm -rf, a failure of one swallowed; the removals do not depend on the
\* order of the entries
cleanPaths(fs, lk, paths) ==
  rmRf(fs, lk,
       UNION {UNION {rmTargets(rmCommand(paths[i], item)) : item \in readdirSync(fs, paths[i])} :
                i \in {j \in 1..Len(paths) : paths[j] \in fs}})

CleanDiskItem ==
  /\ handler = "idle"
  /\ handler' = "clean-disk-item"
  /\ \E id \in CategoryIds, failed \in BOOLEAN :
       LET target == targetOf(id)
       IN /\ pids' = id
          /\ IF target.kind = "undefined"
               THEN /\ result' = Returned([success |-> FALSE, error |-> "Unknown category"])
                    /\ files' = files
               ELSE IF target.kind = "cmd"
                 THEN IF failed
                        THEN /\ result' = Returned([success |-> FALSE, error |-> "Command failed"])
                             /\ files' = files
                        ELSE /\ result' = Returned([success |-> TRUE, error |-> ""])
                             /\ files' = rmRf(files, locked,
                                              {f \in files : isChild(f, trashDir)})
               ELSE IF failed /\ \E i \in 1..Len(target.paths) : target.paths[i] \in files
                 THEN /\ result' = Returned([success |-> FALSE, error |-> "EACCES"])
                      /\ files' = files
                 ELSE /\ result' = Returned([success |-> TRUE, error |-> ""])
                      /\ files' = cleanPaths(files, locked, target.paths)
  /\ pc' = "done"
  /\ log' = <<>>
  /\ UNCHANGED <<flowVars, shellVars, tray, locked, procs, askpassExists, targetPids, next, stopped,
                 skipped, signals, before, tiers, metrics, answers, last>>

(***************************************************************************)
(* uninstall-app.                                                          *)
(***************************************************************************)
\* the leftoverPaths of a request: missing, a list, or a value that is
\* neither (a string)
LeftoverArgs ==
  {[isArray |-> FALSE, nullish |-> TRUE, items |-> <<>>],
   [isArray |-> TRUE, nullish |-> FALSE, items |-> <<>>],
   [isArray |-> TRUE, nullish |-> FALSE, items |-> <<mailSupport, mailPrefs>>],
   [isArray |-> FALSE, nullish |-> FALSE, items |-> <<>>]}

\* lines 849-857: the confirmation dialog is shown
UninstallApp ==
  /\ handler = "idle"
  /\ handler' = "uninstall-app"
  /\ \E leftoverPaths \in LeftoverArgs :
       pids' = [appPath |-> mailApp, leftoverPaths |-> leftoverPaths]
  /\ pc' = "confirm"
  /\ log' = <<>>
  /\ UNCHANGED <<flowVars, diskVars, shellVars, tray, procs, askpassExists, targetPids, next, stopped,
                 skipped, signals, before, tiers, metrics, answers, last, result>>

\* line 859: Cancel is response 0
UninstallConfirm ==
  /\ handler = "uninstall-app" /\ pc = "confirm"
  /\ \E response \in {0, 1} :
       /\ log' = Append(log, Event("showMessageBox", response # 0))
       /\ IF response = 0
            THEN /\ result' = Returned([success |-> FALSE, cancelled |-> TRUE])
                 /\ pc' = "done"
            ELSE /\ result' = result
                 /\ pc' = "trash"
  /\ UNCHANGED <<flowVars, diskVars, shellVars, tray, procs, askpassExists, handler, pids, targetPids,
                 next, stopped, skipped, signals, before, tiers, metrics, answers, last>>

\* line 863: shell.trashItem(appPath); a rejection goes to the catch
UninstallTrashApp ==
  /\ handler = "uninstall-app" /\ pc = "trash"
  /\ LET t == trashItem(files, locked, pids.appPath)
     IN /\ files' = t.files
        /\ log' = Append(log, Event("trashItem app", t.ok))
        /\ pc' = IF t.ok THEN "leftovers" ELSE "fallback"
  /\ UNCHANGED <<flowVars, locked, shellVars, tray, procs, askpassExists, handler, pids, targetPids,
                 next, stopped, skipped, signals, before, tiers, metrics, answers, last,
                 result>>

\* the leftovers that exist are trashed one after the other, a rejection
\* swallowed
RECURSIVE trashLeftovers(_, _, _, _)
trashLeftovers(fs, lk, paths, events) ==
  IF paths = <<>> THEN [files |-> fs, events |-> events]
  ELSE IF Head(paths) \notin fs THEN trashLeftovers(fs, lk, Tail(paths), events)
  ELSE LET t == trashItem(fs, lk, Head(paths))
       IN trashLeftovers(t.files, lk, Tail(paths),
                         Append(events, Event("trashItem leftover", t.ok)))

\* lines 864-869: (leftoverPaths || []).filter(...) throws when leftoverPaths
\* is neither missing nor a list, and what the callback throws goes to the
\* catch of line 870; else the leftovers are trashed and the result is a
\* success
UninstallLeftovers ==
  /\ handler = "uninstall-app" /\ pc = "leftovers"
  /\ IF ~pids.leftoverPaths.isArray /\ ~pids.leftoverPaths.nullish
       THEN /\ pc' = "fallback"
            /\ log' = Append(log, Event("filter", FALSE))
            /\ UNCHANGED <<files, result>>
       ELSE LET t == trashLeftovers(files, locked, pids.leftoverPaths.items, <<>>)
            IN /\ files' = t.files
               /\ log' = log \o t.events
               /\ result' = Returned([success |-> TRUE, cancelled |-> FALSE])
               /\ pc' = "done"
  /\ UNCHANGED <<flowVars, locked, shellVars, tray, procs, askpassExists, handler, pids, targetPids,
                 next, stopped, skipped, signals, before, tiers, metrics, answers, last>>

\* lines 870-876: rm -rf of the application with administrator privileges,
\* which no lock holds back
UninstallFallback ==
  /\ handler = "uninstall-app" /\ pc = "fallback"
  /\ \E err \in BOOLEAN :
       /\ files' = IF err THEN files ELSE rmRf(files, {}, {pids.appPath})
       /\ log' = Append(log, Event("rm -rf admin", ~err))
       /\ result' = Returned([success |-> ~err, cancelled |-> FALSE])
  /\ pc' = "done"
  /\ UNCHANGED <<flowVars, locked, shellVars, tray, procs, askpassExists, handler, pids, targetPids,
                 next, stopped, skipped, signals, before, tiers, metrics, answers, last>>

(***************************************************************************)
(* The environment of the file system.                                     *)
(***************************************************************************)
\* the names an entry may have: plain, with a space, with double quotes
\* around a tilde
EntryNames == {<<"a">>, <<"b", " ", "c">>, <<"x", "\"", " ", "~", " ", "\"">>}
\* the directories entries appear in
EntryDirs == {userCache, userLogs, trashDir, mailCache, xcodeDerived, iosBackups}
\* the entries that may appear: a plain one in every directory, every name
\* in the user cache and among the backups
EntryPaths ==
  {d \o Slash \o <<"a">> : d \in EntryDirs}
  \cup {d \o Slash \o name : d \in {userCache, iosBackups}, name \in EntryNames}
Entries(fs) == {f \in fs : \E d \in EntryDirs : isChild(f, d)}

\* an application or the user leaves an entry in one of the directories
EntryAppears ==
  /\ Cardinality(Entries(files)) < MaxEntries
  /\ \E f \in EntryPaths \ files :
       /\ \E d \in EntryDirs \cap files : isChild(f, d)
       /\ files' = files \cup {f}
  /\ UNCHANGED <<flowVars, locked, shellVars, tray>>
  /\ UNCHANGED <<procs, askpassExists, handler, pc, pids, targetPids, next, stopped,
                 skipped, signals, before, tiers, metrics, log, answers, last, result>>

\* a path becomes one that the user cannot remove
PathLocked ==
  /\ \E p \in {mailApp, mailSupport, userCache \o Slash \o <<"a">>} \ locked :
       locked' = locked \cup {p}
  /\ UNCHANGED <<flowVars, files, shellVars, tray>>
  /\ UNCHANGED <<procs, askpassExists, handler, pc, pids, targetPids, next, stopped,
                 skipped, signals, before, tiers, metrics, log, answers, last, result>>

(***************************************************************************)
(* Two cleanup requests at once.  Each has its own locals (flows[i]); what *)
(* a step reads or writes outside them is noted in accesses while both     *)
(* requests run.  The memory statistics vm_stat reports are the operating  *)
(* system's and are not noted.  A request is suspended between two steps;  *)
(* the steps are the tiers of purgeRamSmart and the snapshots.             *)
(***************************************************************************)
InFlight(i) == flows[i].pc \notin {"idle", "done"}
Other(i) == CHOOSE j \in Invocations : j # i

Access(i, what, how) == [by |-> i, what |-> what, how |-> how]

\* a snapshot as request i read it at a point of its run
Snapshot(i, at, reading) == [reading EXCEPT !.ram = [by |-> i, at |-> at] @@ @]

\* the accesses once request i has made those of `made`
Noted(i, made) == accesses \cup {Access(i, a[1], a[2]) : a \in made}

FlowsUnchanged ==
  UNCHANGED <<diskVars, shellVars, procs, handler, pc, pids, targetPids, next, stopped,
              skipped, signals, before, tiers, metrics, log, answers, last, result>>

\* free-ram (572-574) or deep-clean-ram given no pids (602-608): the before
\* snapshot.  A request that starts while the other is not running shares
\* nothing with it.
FlowStart(i) ==
  /\ appState = "ready"
  /\ ~InFlight(i)
  /\ \E kind \in {"free-ram", "deep-clean-ram"}, reading \in Reading(OneReading) :
       flows' = [flows EXCEPT ![i] =
                   [IdleFlow EXCEPT !.kind = kind,
                                    !.pc = IF kind = "free-ram" THEN "probe" ELSE "grace",
                                    !.before = Snapshot(i, "before", reading)]]
  /\ accesses' = IF InFlight(Other(i)) THEN {a \in accesses : a.by # i} ELSE {}
  /\ UNCHANGED <<sudoCache, askpassExists, tray>>
  /\ FlowsUnchanged

\* deep-clean-ram, line 638: the grace wait
FlowGrace(i) ==
  /\ flows[i].pc = "grace"
  /\ flows' = [flows EXCEPT ![i].pc = "probe"]
  /\ UNCHANGED <<accesses, sudoCache, askpassExists, tray>>
  /\ FlowsUnchanged

\* `sudo -n true` succeeds when sudo holds a credential
FlowProbe(i) ==
  /\ flows[i].pc = "probe"
  /\ LET cmd == IF sudoCache THEN CmdOk ELSE CmdFailed("", "Command failed: sudo -n true")
         authorized == isSudoAuthorized(cmd)
     IN flows' = [flows EXCEPT
                    ![i].tiers.probe = IF authorized THEN Ok ELSE Failed(""),
                    ![i].pc = PcOf(afterProbe(authorized))]
  /\ accesses' = Noted(i, {<<"credential cache", "read">>})
  /\ UNCHANGED <<sudoCache, askpassExists, tray>>
  /\ FlowsUnchanged

\* `sudo -n purge` can succeed only while sudo holds a credential
FlowPurgeCached(i) ==
  /\ flows[i].pc = "purge1"
  /\ \E cmd \in PurgeOutcomes :
       /\ ~cmd.failed => sudoCache
       /\ LET noPrompt == purgeRamWithSudoNoPrompt(cmd)
              to == afterNoPrompt1(noPrompt)
          IN flows' = [flows EXCEPT
                         ![i].tiers = Taken([@ EXCEPT !.noPrompt1 = noPrompt], to, "sudo-cached"),
                         ![i].pc = PcOf(to)]
  /\ accesses' = Noted(i, {<<"credential cache", "read">>})
  /\ UNCHANGED <<sudoCache, askpassExists, tray>>
  /\ FlowsUnchanged

\* authorizeSudoSession up to its exec, 260-266: the script is looked for and
\* written if it is missing (248-258); if that throws the promise resolves
\* with the failure at once, otherwise `sudo -A -v` is started
FlowAuthorize(i) ==
  /\ flows[i].pc = "authorize"
  /\ \E writeOk \in BOOLEAN :
       LET script == ensureAskpassScript(askpassExists, writeOk)
           p == authorizeSudoSession(script, CmdOk)
       IN /\ askpassExists' = script.exists
          /\ accesses' =
               Noted(i, {<<"askpass script", "read">>}
                        \cup (IF ~askpassExists /\ script.exists
                                THEN {<<"askpass script", "write">>} ELSE {}))
          /\ flows' = IF script.threw
                        THEN [flows EXCEPT
                                ![i].tiers = Taken([@ EXCEPT !.auth = p.value],
                                                   afterAuth(p.value), ""),
                                ![i].pc = PcOf(afterAuth(p.value))]
                        ELSE [flows EXCEPT ![i].pc = "prompt"]
  /\ UNCHANGED <<sudoCache, tray>>
  /\ FlowsUnchanged

\* the callback of `sudo -A -v`, 267-270: sudo has run the script, and has
\* cached the credential when the password was given
FlowPrompt(i) ==
  /\ flows[i].pc = "prompt"
  /\ \E cmd \in {CmdOk, CmdFailed("sudo: no password was provided", "Command failed: sudo -A -v")} :
       LET p == authorizeSudoSession(ensureAskpassScript(TRUE, TRUE), cmd)
       IN /\ sudoCache' = IF cmd.failed THEN sudoCache ELSE TRUE
          /\ accesses' =
               Noted(i, {<<"askpass script", "read">>}
                        \cup (IF cmd.failed THEN {}
                              ELSE {<<"credential cache", "write">>}))
          /\ flows' = [flows EXCEPT
                         ![i].tiers = Taken([@ EXCEPT !.auth = p.value],
                                            afterAuth(p.value), ""),
                         ![i].pc = PcOf(afterAuth(p.value))]
  /\ UNCHANGED <<askpassExists, tray>>
  /\ FlowsUnchanged

FlowPurgeAuthorized(i) ==
  /\ flows[i].pc = "purge2"
  /\ \E cmd \in PurgeOutcomes :
       /\ ~cmd.failed => sudoCache
       /\ LET noPrompt == purgeRamWithSudoNoPrompt(cmd)
              to == afterNoPrompt2(noPrompt)
          IN flows' = [flows EXCEPT
                         ![i].tiers = Taken([@ EXCEPT !.noPrompt2 = noPrompt], to, "sudo-askpass"),
                         ![i].pc = PcOf(to)]
  /\ accesses' = Noted(i, {<<"credential cache", "read">>})
  /\ UNCHANGED <<sudoCache, askpassExists, tray>>
  /\ FlowsUnchanged

\* the native administrator dialog
FlowFallback(i) ==
  /\ flows[i].pc = "fallback"
  /\ \E cmd \in {CmdOk, CmdFailed("", "User canceled. (-128)")} :
       LET fallback == purgeRamWithAdminPrompt(cmd)
       IN flows' = [flows EXCEPT
                      ![i].tiers = [@ EXCEPT
                                      !.fallback = fallback,
                                      !.ret = IF fallback.success THEN Ok
                                              ELSE Failed(purgeRamSmartError(fallback, @.auth)),
                                      !.method = IF fallback.success THEN "osascript-admin"
                                                 ELSE @],
                      ![i].pc = "purged"]
  /\ UNCHANGED <<accesses, sudoCache, askpassExists, tray>>
  /\ FlowsUnchanged

\* lines 575-581 and 639-644: a failed purge is returned with the before
\* snapshot; after a purge that succeeded the immediate snapshot is read
FlowPurged(i) ==
  /\ flows[i].pc = "purged"
  /\ \E reading \in Reading(OneReading) :
       LET f == flows[i]
       IN flows' = IF ~f.tiers.ret.success
                     THEN [flows EXCEPT
                             ![i].report =
                               Returned(IF f.kind = "free-ram"
                                          THEN freeRamFailure(f.tiers.ret, f.before)
                                          ELSE deepCleanFailure(f.tiers.ret, f.before,
                                                                <<>>, <<>>)),
                             ![i].pc = "done"]
                     ELSE [flows EXCEPT
                             ![i].metrics =
                               metricsImmediate(f.before.ram,
                                                Snapshot(i, "immediate", reading)),
                             ![i].pc = "settle"]
  /\ UNCHANGED <<accesses, sudoCache, askpassExists, tray>>
  /\ FlowsUnchanged

\* A mutant of FlowReturn: the before snapshot of the report is the one the
\* other request read, when it has read one.
FlowReturn_OthersBefore(i) ==
  /\ flows[i].pc = "settle"
  /\ \E reading \in Reading(OneReading), shown \in Reading(OneReading) :
       LET f == flows[i]
           b == IF flows[Other(i)].before.taken THEN flows[Other(i)].before ELSE f.before
           m == metricsStabilized(f.metrics, b.ram, Snapshot(i, "stabilized", reading))
       IN /\ flows' = [flows EXCEPT
                         ![i].metrics = m,
                         ![i].report =
                           Returned(IF f.kind = "free-ram" THEN freeRamSuccess(b, m)
                                    ELSE deepCleanSuccess(b, m, <<>>, <<>>)),
                         ![i].pc = "done"]
          /\ tray' = updateTray(tray, shown)
  /\ accesses' = Noted(i, {<<"tray", "read">>}
                          \cup (IF tray.exists THEN {<<"tray", "write">>} ELSE {}))
  /\ UNCHANGED <<sudoCache, askpassExists>>
  /\ FlowsUnchanged

\* after the settle delay (316-332): the stabilized snapshot, updateTray()
\* (584, 648) and the report (586-599, 650-665)
FlowReturn(i) ==
  /\ flows[i].pc = "settle"
  /\ \E reading \in Reading(OneReading), shown \in Reading(OneReading) :
       LET f == flows[i]
           m == metricsStabilized(f.metrics, f.before.ram,
                                  Snapshot(i, "stabilized", reading))
       IN /\ flows' = [flows EXCEPT
                         ![i].metrics = m,
                         ![i].report =
                           Returned(IF f.kind = "free-ram" THEN freeRamSuccess(f.before, m)
                                    ELSE deepCleanSuccess(f.before, m, <<>>, <<>>)),
                         ![i].pc = "done"]
          /\ tray' = updateTray(tray, shown)
  /\ accesses' = Noted(i, {<<"tray", "read">>}
                          \cup (IF tray.exists THEN {<<"tray", "write">>} ELSE {}))
  /\ UNCHANGED <<sudoCache, askpassExists>>
  /\ FlowsUnchanged

\* sudo's cached credential expires
SudoCacheExpires ==
  /\ sudoCache
  /\ sudoCache' = FALSE
  /\ UNCHANGED <<flows, accesses, askpassExists, tray>>
  /\ FlowsUnchanged

(***************************************************************************)
(* Specifications.                                                         *)
(***************************************************************************)
\* Every handler.  The before snapshot of free-ram may fail to be read; the
\* other snapshots are read as one reading (SpecMetrics draws every reading).
Next ==
  \/ FreeRam(FewReads)
  \/ FreeRamPurged
  \/ FreeRamReturn
  \/ DeepCleanRam(OneReading, PidsArgs)
  \/ DeepCleanCandidate
  \/ DeepCleanGrace
  \/ DeepCleanPurged
  \/ DeepCleanReturn
  \/ QuitProcess(RawPids)
  \/ QuitProcessCheck
  \/ TrayPurge
  \/ TrayPurged
  \/ Probe
  \/ PurgeCached
  \/ Authorize
  \/ PurgeAuthorized
  \/ Fallback
  \/ BuildMetricsImmediate(OneReading)
  \/ BuildMetricsStabilized(OneReading)
  \/ ProcessExit
  \/ Reply(FALSE)

Spec == Init /\ [][Next]_vars

\* free-ram alone, with every snapshot reading.
NextMetrics ==
  \/ FreeRam(AllReads)
  \/ FreeRamPurged
  \/ FreeRamReturn
  \/ Probe
  \/ PurgeCached
  \/ Authorize
  \/ PurgeAuthorized
  \/ Fallback
  \/ BuildMetricsImmediate(AllReads)
  \/ BuildMetricsStabilized(AllReads)
  \/ Reply(FALSE)

SpecMetrics == Init /\ [][NextMetrics]_vars

\* deep-clean-ram given five candidates of which the first two are the
\* application's own pid and pid 1.
ScenarioArgs ==
  {[isArray |-> TRUE, items |-> <<Num(OwnPid), Num(1), Num(a), Num(b), Num(c)>>] :
     a \in 2..MaxPid, b \in 2..MaxPid, c \in 2..MaxPid}

NextScenario ==
  \/ DeepCleanRam(FewReads, ScenarioArgs)
  \/ DeepCleanCandidate
  \/ DeepCleanGrace
  \/ DeepCleanPurged
  \/ DeepCleanReturn
  \/ Probe
  \/ PurgeCached
  \/ Authorize
  \/ PurgeAuthorized
  \/ Fallback
  \/ BuildMetricsImmediate(FewReads)
  \/ BuildMetricsStabilized(FewReads)
  \/ ProcessExit
  \/ Reply(FALSE)

SpecScenario == Init /\ [][NextScenario]_vars

(***************************************************************************)
(* Properties.                                                             *)
(***************************************************************************)
\* free-ram invoked again and again, each request remembered by the next;
\* the snapshot commands always print the same.
OneRead ==
  Reads({[k \in VmKeys |-> 1]},
        {Str(<<"4", "0", "9", "6">>)},
        {[k \in {"pct", "status"} |-> IF k = "pct" THEN 50 ELSE <<"O", "K">>]},
        {FALSE}, {FALSE}, {FALSE})

NextTwice ==
  \/ FreeRam(OneRead)
  \/ FreeRamPurged
  \/ FreeRamReturn
  \/ Probe
  \/ PurgeCached
  \/ Authorize
  \/ PurgeAuthorized
  \/ Fallback
  \/ BuildMetricsImmediate(OneRead)
  \/ BuildMetricsStabilized(OneRead)
  \/ Reply(TRUE)

SpecTwice == Init /\ [][NextTwice]_vars

\* free-ram and deep-clean-ram when every external command returns or times
\* out and every timer fires: a step of a request that can be taken is
\* eventually taken (RequestStep: the steps that wait for a command or a
\* timer; CandidateTurn: the loop has a candidate left, and its turn, which
\* waits for ps, is then taken).  Nothing makes a request arrive or a
\* signaled process exit.
RequestStep ==
  \/ FreeRamPurged
  \/ FreeRamReturn
  \/ DeepCleanGrace
  \/ DeepCleanPurged
  \/ DeepCleanReturn
  \/ Probe
  \/ PurgeCached
  \/ Authorize
  \/ PurgeAuthorized
  \/ Fallback
  \/ BuildMetricsImmediate(OneRead)
  \/ BuildMetricsStabilized(OneRead)

CandidateTurn == handler = "deep-clean-ram" /\ pc = "loop" /\ next <= Len(targetPids)

\* lists of a process that is stopped and one that cannot be signaled
LiveArgs ==
  {[isArray |-> TRUE, items |-> q] : q \in {<<>>, <<Num(4)>>, <<Num(7), Num(4)>>}}

NextLive ==
  \/ FreeRam(OneRead)
  \/ FreeRamPurged
  \/ FreeRamReturn
  \/ DeepCleanRam(OneRead, LiveArgs)
  \/ DeepCleanCandidate
  \/ DeepCleanGrace
  \/ DeepCleanPurged
  \/ DeepCleanReturn
  \/ Probe
  \/ PurgeCached
  \/ Authorize
  \/ PurgeAuthorized
  \/ Fallback
  \/ BuildMetricsImmediate(OneRead)
  \/ BuildMetricsStabilized(OneRead)
  \/ ProcessExit
  \/ Reply(FALSE)

SpecLive ==
  /\ Init /\ [][NextLive]_vars
  /\ WF_vars(RequestStep)
  /\ ([]<>(~CandidateTurn) \/ []<><<DeepCleanCandidate>>_vars)

\* free-ram with every output of memory_pressure: a free percentage up to
\* MaxPct or none, and a status text (in any case, recognised or not) or
\* none; the command may fail.
StatusTexts ==
  {<<"O", "K">>, <<"o", "k">>, <<"W", "a", "r", "n", "i", "n", "g">>,
   <<"C", "R", "I", "T", "I", "C", "A", "L">>, <<"U", "R", "G", "E", "N", "T">>}
AllPressureOutputs ==
  {[k \in {"pct", "status"} |-> IF k = "pct" THEN n ELSE t] : n \in 0..MaxPct, t \in StatusTexts}
  \cup {[k \in {"pct"} |-> n] : n \in 0..MaxPct}
  \cup {[k \in {"status"} |-> t] : t \in StatusTexts}
  \cup {PressureFailed}
PressureReads ==
  Reads({[k \in VmKeys |-> 1]}, {Str(<<"4", "0", "9", "6">>)}, AllPressureOutputs,
        {FALSE}, {FALSE}, BOOLEAN)

NextPressure ==
  \/ FreeRam(PressureReads)
  \/ FreeRamPurged
  \/ FreeRamReturn
  \/ Probe
  \/ PurgeCached
  \/ Authorize
  \/ PurgeAuthorized
  \/ Fallback
  \/ BuildMetricsImmediate(PressureReads)
  \/ BuildMetricsStabilized(FewReads)
  \/ Reply(FALSE)

SpecPressure == Init /\ [][NextPressure]_vars

\* The application shell alone: start, window and power events, profile
\* changes, the timer firing, quit.
NextShell ==
  \/ SettingsFileLeft
  \/ WhenReady
  \/ WindowFocus
  \/ WindowBlur
  \/ WindowShow
  \/ WindowHide
  \/ WindowMinimize
  \/ WindowRestore
  \/ WindowClosed
  \/ CreateWindow
  \/ Suspend
  \/ Resume
  \/ TimerFires
  \/ TrayRefreshMode
  \/ SetRefreshProfile
  \/ GetSettings
  \/ BeforeQuit
  \/ Reply(FALSE)

SpecShell == Init /\ [][NextShell]_vars

\* The handlers that remove files, while entries appear and paths are
\* locked.
NextDisk ==
  \/ CleanDiskItem
  \/ UninstallApp
  \/ UninstallConfirm
  \/ UninstallTrashApp
  \/ UninstallLeftovers
  \/ UninstallFallback
  \/ EntryAppears
  \/ PathLocked
  \/ Reply(FALSE)

SpecDisk == Init /\ [][NextDisk]_vars

\* Two cleanup requests at once, after the application has started.
NextFlows ==
  \/ WhenReady
  \/ \E i \in Invocations : FlowStart(i)
  \/ \E i \in Invocations : FlowGrace(i)
  \/ \E i \in Invocations : FlowProbe(i)
  \/ \E i \in Invocations : FlowPurgeCached(i)
  \/ \E i \in Invocations : FlowAuthorize(i)
  \/ \E i \in Invocations : FlowPrompt(i)
  \/ \E i \in Invocations : FlowPurgeAuthorized(i)
  \/ \E i \in Invocations : FlowFallback(i)
  \/ \E i \in Invocations : FlowPurged(i)
  \/ \E i \in Invocations : FlowReturn(i)
  \/ SudoCacheExpires

SpecFlows == Init /\ [][NextFlows]_vars

\* The three handlers that apply the termination guards, deep-clean-ram
\* given one candidate, while processes start and exit.
GuardArgs == {[isArray |-> TRUE, items |-> <<raw>>] : raw \in RawPids}

NextGuards ==
  \/ GetRamProcesses
  \/ QuitProcess(RawPids)
  \/ QuitProcessCheck
  \/ DeepCleanRam(OneRead, GuardArgs)
  \/ DeepCleanCandidate
  \/ DeepCleanGrace
  \/ DeepCleanPurged
  \/ DeepCleanReturn
  \/ Probe
  \/ PurgeCached
  \/ Authorize
  \/ PurgeAuthorized
  \/ Fallback
  \/ BuildMetricsImmediate(OneRead)
  \/ BuildMetricsStabilized(OneRead)
  \/ ProcessSpawn
  \/ ProcessExit
  \/ Reply(FALSE)

SpecGuards == Init /\ [][NextGuards]_vars

\* deep-clean-ram given lists of up to 5 + MaxExtra candidates (a process
\* that is stopped, one that cannot be signaled, a string that is no pid;
\* the entries past the fifth name a process that would be stopped), or a
\* value that is not a list.
CapHeads == SeqsUpTo({Num(4), Num(7), Str(<<"x">>)}, 5)
CapTails == SeqsUpTo({Num(4)}, MaxExtra) \ {<<>>}
CapArgs ==
  {[isArray |-> TRUE, items |-> h] : h \in CapHeads}
  \cup {[isArray |-> TRUE, items |-> h \o t] : h \in {g \in CapHeads : Len(g) = 5}, t \in CapTails}
  \cup {[isArray |-> FALSE, items |-> <<Num(4)>>]}

NextCap ==
  \/ DeepCleanRam(OneRead, CapArgs)
  \/ DeepCleanCandidate
  \/ DeepCleanGrace
  \/ DeepCleanPurged
  \/ DeepCleanReturn
  \/ Probe
  \/ PurgeCached
  \/ Authorize
  \/ PurgeAuthorized
  \/ Fallback
  \/ BuildMetricsImmediate(OneRead)
  \/ BuildMetricsStabilized(OneRead)
  \/ ProcessExit
  \/ Reply(FALSE)

SpecCap == Init /\ [][NextCap]_vars

TierEvents == {"probe", "purge", "authorize", "dialog"}

\* the deny-list as the specification states it: a name matches when,
\* lower-cased, it contains an entry
DenyListed(name) ==
  \E p \in protectedNames :
    \E i \in 1..Len(name) :
      /\ i + Len(p) - 1 <= Len(name)
      /\ \A k \in 1..Len(p) : LowerChar(name[i + k - 1]) = p[k]

\* whether a candidate passes the three guards, told from the process table
\* itself
Admissible(raw, table) ==
  LET p == parseInt10(raw)
  IN /\ p.finite
     /\ p.v \in DOMAIN table
     /\ table[p.v].user = me
     /\ p.v # OwnPid
     /\ ~DenyListed(ProcName(table[p.v]))

\* C1: once a tier's privileged command (the non-interactive purge, the
\* purge behind the native dialog) has succeeded, no command of any tier
\* follows it in that invocation of purgeRamSmart.
C1_SuccessStopsEscalation ==
  \A i \in 1..Len(log) :
    (log[i].ev \in {"purge", "dialog"} /\ log[i].ok)
      => \A j \in (i + 1)..Len(log) : log[j].ev \notin TierEvents

\* a cached-credential purge succeeded, and the request went on to its end
C1_Witness ==
  /\ pc = "done"
  /\ tiers.method = "sudo-cached"
  /\ \E i \in 1..Len(log) : log[i].ev = "purge" /\ log[i].ok /\ i < Len(log)

\* C2: deep-clean-ram signals a pid only if it names a running process of
\* the invoking user that is not the application and whose name is not
\* deny-listed; a candidate failing a guard is appended to skipped and no
\* signal is sent for it.
C2_SignalsArePassedGuards ==
  \A s \in signals :
    s.by = "deep-clean-ram" =>
      /\ s.running
      /\ s.user = me
      /\ s.pid # OwnPid
      /\ ~DenyListed(ProcName(s))

C2_RejectedIsSkipped ==
  (handler = "deep-clean-ram" /\ pc = "loop" /\ next <= Len(targetPids)
     /\ next' = next + 1
     /\ ~Admissible(targetPids[next], procs))
    => /\ Len(skipped') = Len(skipped) + 1
       /\ skipped'[Len(skipped')].reason \in {"invalid pid", "not found", "not allowed"}
       /\ signals' = signals
       /\ stopped' = stopped

C2_GuardedTermination ==
  [](C2_SignalsArePassedGuards) /\ [][C2_RejectedIsSkipped]_vars

\* a request that signaled one candidate and skipped another
C2_Witness ==
  /\ handler = "deep-clean-ram"
  /\ \E s \in signals : s.by = "deep-clean-ram"
  /\ skipped # <<>>
  /\ stopped # <<>>

\* C3: no process whose name contains a deny-list entry, case-insensitively,
\* is ever signaled, by deep-clean-ram or by quit-process, whoever owns it.
C3_DenyListedNeverSignaled ==
  \A s \in signals : ~DenyListed(ProcName(s))

\* quit-process was asked to stop the user's own deny-listed process and
\* refused
C3_Witness ==
  /\ handler = "quit-process"
  /\ pc = "done"
  /\ result.value.error = "Protected process cannot be terminated"
  /\ LET p == parseInt10(targetPids[1]).v
     IN p \in DOMAIN procs /\ procs[p].user = me /\ DenyListed(ProcName(procs[p]))

\* the candidates [own_pid, 1, nonexistent_pid, other_user_pid, valid_pid]
IsScenario(cands, table) ==
  /\ Len(cands) = 5
  /\ cands[1] = Num(OwnPid)
  /\ cands[2] = Num(1)
  /\ cands[3].num > 1 /\ cands[3].num # OwnPid /\ cands[3].num \notin DOMAIN table
  /\ cands[4].num > 1 /\ cands[4].num \in DOMAIN table /\ table[cands[4].num].user # me
  /\ cands[5].num > 1 /\ cands[5].num \in DOMAIN table
  /\ cands[5].num # OwnPid
  /\ table[cands[5].num].user = me
  /\ table[cands[5].num].killable
  /\ ~DenyListed(ProcName(table[cands[5].num]))

\* C4: given [own_pid, 1, nonexistent_pid, other_user_pid, valid_pid], once
\* the fifth candidate is handled stopped is [valid_pid] and skipped holds
\* the other four in input order with the reasons 'invalid pid',
\* 'invalid pid', 'not found', 'not allowed'.
C4_ScenarioStep ==
  (handler = "deep-clean-ram" /\ pc = "loop" /\ next = 5 /\ next' = 6
     /\ IsScenario(targetPids, procs))
    => /\ stopped' = <<[pid |-> targetPids[5].num,
                        name |-> ProcName(procs[targetPids[5].num])]>>
       /\ skipped' = <<[pid |-> targetPids[1], reason |-> "invalid pid"],
                       [pid |-> targetPids[2], reason |-> "invalid pid"],
                       [pid |-> targetPids[3], reason |-> "not found"],
                       [pid |-> targetPids[4], reason |-> "not allowed"]>>
       /\ signals' = {Signal(procs, targetPids[5].num, "deep-clean-ram")}

C4_Scenario == [][C4_ScenarioStep]_vars

\* the loop has handled the five candidates of the scenario
C4_Witness ==
  /\ handler = "deep-clean-ram" /\ pc = "loop" /\ next = 6
  /\ Len(stopped) = 1
  /\ Len(skipped) = 4
  /\ skipped[3].reason = "not found"
  /\ skipped[4].reason = "not allowed"
  /\ stopped[1].pid = targetPids[5].num

\* the deltas buildRamCleanupMetrics has computed so far
ImmediateDone == metrics.immediate.taken
StabilizedDone == metrics.stabilized.taken

\* C5: whatever the before and after snapshots, the four reported deltas
\* are >= 0, in buildRamCleanupMetrics and in the result returned.
C5_DeltasNonNegative ==
  /\ ImmediateDone =>
       /\ metrics.immediateFreeGainBytes >= 0
       /\ metrics.immediateUsedDropBytes >= 0
  /\ StabilizedDone =>
       /\ metrics.stabilizedFreeGainBytes >= 0
       /\ metrics.stabilizedUsedDropBytes >= 0
  /\ (result.returned /\ result.value.success) =>
       /\ result.value.immediateFreeGainBytes >= 0
       /\ result.value.immediateUsedDropBytes >= 0
       /\ result.value.stabilizedFreeGainBytes >= 0
       /\ result.value.stabilizedUsedDropBytes >= 0
       /\ result.value.reclaimedBytes >= 0

\* free-ram returned after snapshots that show less free and more used
\* memory than before, immediately and after the settle delay
C5_Witness ==
  /\ handler = "free-ram" /\ pc = "done"
  /\ result.value.success
  /\ result.value.after.free < result.value.before.free
  /\ result.value.after.used > result.value.before.used
  /\ result.value.stabilized.free < result.value.before.free
  /\ result.value.stabilized.used > result.value.before.used

\* max(0, x - y)
GainOver(x, y) == IF x - y >= 0 THEN x - y ELSE 0

\* C6: the deltas are the reference formulas: the immediate ones from the
\* immediate snapshot against before, the stabilized ones from the
\* stabilized snapshot against the same before snapshot; and the worked
\* example (in units of 1000 bytes) gives 300 000 for both immediate deltas.
C6_DeltasAreReference ==
  /\ (result.returned /\ result.value.success) =>
       LET r == result.value
       IN /\ r.immediateFreeGainBytes = GainOver(r.after.free, r.before.free)
          /\ r.immediateUsedDropBytes = GainOver(r.before.used, r.after.used)
          /\ r.stabilizedFreeGainBytes = GainOver(r.stabilized.free, r.before.free)
          /\ r.stabilizedUsedDropBytes = GainOver(r.before.used, r.stabilized.used)
          /\ r.before = before.ram
          /\ r.after = metrics.immediate.ram
          /\ r.stabilized = metrics.stabilized.ram
  /\ LET b == [free |-> 2000000, used |-> 14000000]
         a == [free |-> 2300000, used |-> 13700000]
         m == metricsImmediate(b, [ram |-> a])
     IN m.immediateFreeGainBytes = 300000 /\ m.immediateUsedDropBytes = 300000

\* free-ram returned stabilized deltas that differ from what they would be
\* against the immediate snapshot
C6_Witness ==
  /\ handler = "free-ram" /\ pc = "done"
  /\ result.value.success
  /\ result.value.stabilizedFreeGainBytes > 0
  /\ result.value.immediateFreeGainBytes > 0
  /\ result.value.stabilizedFreeGainBytes
       # GainOver(result.value.stabilized.free, result.value.after.free)
  /\ result.value.stabilizedUsedDropBytes
       # GainOver(result.value.after.used, result.value.stabilized.used)

\* C7: no exception escapes purgeRamSmart, free-ram or deep-clean-ram,
\* whichever commands fail: purgeRamSmart returns a result with a boolean
\* success, and so do free-ram and deep-clean-ram.
C7_NeverRaises ==
  /\ pc # "threw"
  /\ pc \in {"purged", "immediate", "settle", "built", "done"} /\ InPurge
       => tiers.ret.ran /\ tiers.ret.success \in BOOLEAN
  /\ pc = "done" /\ InCleanup
       => result.returned /\ result.value.success \in BOOLEAN

\* the helper script could not be written, the tier failed with that error
\* and the request still returned
C7_Witness ==
  /\ InCleanup /\ pc = "done"
  /\ tiers.auth.error = "EACCES: permission denied"
  /\ ~askpassExists
  /\ result.returned

C9_FailureCarriesBefore ==
  (InCleanup /\ pc = "done" /\ ~result.value.success) =>
    LET r == result.value
    IN /\ r.error # ""
       /\ r.before = before.ram
       /\ r.beforePressure = before.pressure
       /\ log[1].ev = "before"
       /\ \A i \in 1..Len(log) : log[i].ev \in TierEvents => i > 1
       /\ \A i \in 1..Len(log) :
            log[i].ev \notin {"immediate", "stabilized", "sleep 12000"}
       /\ metrics = NoMetrics
       /\ IF handler = "deep-clean-ram"
            THEN /\ DOMAIN r = {"success", "error", "before", "beforePressure",
                                "stopped", "skipped"}
                 /\ r.stopped = stopped
                 /\ r.skipped = skipped
            ELSE DOMAIN r = {"success", "error", "before", "beforePressure"}

\* deep-clean-ram failed after stopping one process and skipping another,
\* the dialog having failed without an error text
C9_Witness ==
  /\ handler = "deep-clean-ram" /\ pc = "done"
  /\ ~result.value.success
  /\ tiers.fallback.error = ""
  /\ result.value.stopped # <<>>
  /\ result.value.skipped # <<>>

\* the first command of the tier after the one log[i] belongs to
NextTierStart(i) ==
  IF log[i].ev = "probe" THEN "authorize"
  ELSE IF log[i].ev = "purge" /\ log[i - 1].ev = "probe" THEN "authorize"
  ELSE "dialog"

\* C10: a failed command of tier 1 or tier 2 is followed by the first command
\* of the next tier (it is the next command run, and has run when
\* purgeRamSmart returns); purgeRamSmart returns a failure only when the
\* native dialog was attempted and failed, as the last command.
C10_SoftFailures ==
  /\ pc # "threw"
  /\ \A i \in 1..Len(log) :
       (log[i].ev \in {"probe", "purge", "authorize"} /\ ~log[i].ok) =>
         IF i < Len(log) THEN log[i + 1].ev = NextTierStart(i)
         ELSE pc = (IF NextTierStart(i) = "authorize" THEN "authorize" ELSE "fallback")
  /\ (tiers.ret.ran /\ ~tiers.ret.success) =>
       /\ tiers.fallback.ran /\ ~tiers.fallback.success
       /\ \E i \in 1..Len(log) :
            /\ log[i] = Event("dialog", FALSE)
            /\ \A j \in (i + 1)..Len(log) : log[j].ev \notin TierEvents

\* every tier failed in turn: the cached purge, the retried purge, the dialog
C10_Witness ==
  /\ pc = "purged"
  /\ ~tiers.ret.success
  /\ tiers.probe.success /\ ~tiers.noPrompt1.success /\ tiers.noPrompt1.ran
  /\ tiers.auth.success /\ ~tiers.noPrompt2.success /\ tiers.noPrompt2.ran
  /\ tiers.fallback.ran

\* the number of commands of the request so far that are among evs
CountEvents(evs) == Cardinality({i \in 1..Len(log) : log[i].ev \in evs})

ReportedAs(raw) ==
  LET p == parseInt10(raw) IN IF invalidPid(p) THEN raw ELSE Num(p.v)

\* the pids reported so far, stopped and skipped
ReportedPids ==
  {Num(stopped[i].pid) : i \in 1..Len(stopped)} \cup {skipped[i].pid : i \in 1..Len(skipped)}

\* how many of the first k entries of the list are reported as x, and how
\* many entries of stopped and skipped report x
ExaminedCount(x, k) ==
  Cardinality({i \in 1..k : ReportedAs(pids.items[i]) = x})
ReportedCount(x) ==
  Cardinality({i \in 1..Len(stopped) : Num(stopped[i].pid) = x})
  + Cardinality({i \in 1..Len(skipped) : skipped[i].pid = x})

\* the number of entries deep-clean-ram has examined
Examined == IF pc = "loop" THEN next - 1 ELSE Len(targetPids)

\* C12: deep-clean-ram examines the first five entries of the list and no
\* other: what is reported in stopped and skipped is, entry for entry, the
\* examined entries, each in exactly one of the two lists; no more signals
\* are sent than entries are stopped; once the loop is over |stopped| +
\* |skipped| = min(5, length of the list), 0 when the argument is not a list.
C12_AtMostFive ==
  handler = "deep-clean-ram" =>
    /\ Examined <= 5
    /\ pids.isArray => Examined <= Len(pids.items)
    /\ Len(stopped) + Len(skipped) = Examined
    /\ pids.isArray =>
         \A x \in ReportedPids \cup {ReportedAs(pids.items[i]) : i \in 1..Len(pids.items)} :
           ReportedCount(x) = ExaminedCount(x, Examined)
    /\ Cardinality({i \in 1..Len(log) : log[i] = Event("kill", TRUE)}) = Len(stopped)
    /\ Cardinality(signals) <= Len(stopped)
    /\ CountEvents({"kill"}) <= Examined
    /\ pc # "loop" =>
         Len(stopped) + Len(skipped) =
           IF ~pids.isArray THEN 0
           ELSE IF Len(pids.items) < 5 THEN Len(pids.items) ELSE 5

\* a list of more than five entries was handled to the end, with both
\* outcomes among the first five
C12_Witness ==
  /\ handler = "deep-clean-ram" /\ pc = "done"
  /\ pids.isArray /\ Len(pids.items) > 5
  /\ stopped # <<>> /\ skipped # <<>>
  /\ Len(stopped) + Len(skipped) = 5

\* the snapshots the request has read so far
SnapshotsRead ==
  {s.ram : s \in {r \in {before, metrics.immediate, metrics.stabilized} : r.taken}}

\* C13 (the claim as stated): every snapshot getRamSnapshot returns has
\* free >= 0, used >= 0 and 0 <= usedPct <= 100, whatever page counts the OS
\* reports.
C13_SnapshotInRange ==
  \A s \in SnapshotsRead :
    /\ s.free >= 0
    /\ s.used >= 0
    /\ 0 <= s.usedPct /\ s.usedPct <= 100

\* the readings the request has taken so far
ReadingsTaken == {r \in {before, metrics.immediate, metrics.stabilized} : r.taken}

\* the level the claim gives a status text, "" when the text is none of
\* OK, WARNING, CRITICAL (the text is matched whatever its case)
LevelOfStatus(text) ==
  LET t == toLowerCase(text)
  IN IF t = <<"o", "k">> THEN "normal"
     ELSE IF t = <<"w", "a", "r", "n", "i", "n", "g">> THEN "warning"
     ELSE IF t = <<"c", "r", "i", "t", "i", "c", "a", "l">> THEN "critical"
     ELSE ""

\* C14: the level getMemoryPressure returns is one of normal, warning,
\* critical, unknown; a status text OK, WARNING or CRITICAL decides it
\* whatever the free percentage; with the status text missing or
\* unrecognised it is critical below 5% free, warning from 5% to below 12%,
\* normal from 12%, and unknown exactly when there is no free percentage
\* either.
C14_PressureLevel ==
  \A r \in ReadingsTaken :
    LET o == r.out.pressure
        fromStatus == IF "status" \in DOMAIN o THEN LevelOfStatus(o["status"]) ELSE ""
        hasPct == "pct" \in DOMAIN o
        level == r.pressure.level
    IN /\ level \in {"normal", "warning", "critical", "unknown"}
       /\ fromStatus # "" => level = fromStatus
       /\ (fromStatus = "" /\ hasPct) =>
            /\ o["pct"] < 5 => level = "critical"
            /\ (5 <= o["pct"] /\ o["pct"] < 12) => level = "warning"
            /\ o["pct"] >= 12 => level = "normal"
       /\ level = "unknown" <=> (fromStatus = "" /\ ~hasPct)
       /\ r.pressure.freePct = IF hasPct THEN Some(o["pct"]) ELSE Null

\* the immediate reading had an unrecognised status text and 5% free (a
\* warning) after a before reading whose status text OK overrode 3% free
C14_Witness ==
  /\ before.taken /\ metrics.immediate.taken
  /\ before.out.pressure = [k \in {"pct", "status"} |-> IF k = "pct" THEN 3 ELSE <<"o", "k">>]
  /\ before.pressure.level = "normal"
  /\ metrics.immediate.out.pressure =
       [k \in {"pct", "status"} |-> IF k = "pct" THEN 5 ELSE <<"U", "R", "G", "E", "N", "T">>]
  /\ metrics.immediate.pressure.level = "warning"

\* two requests got the same answers: every command both ran answered the
\* same in both
SameAnswers(a, b) ==
  \A i \in 1..Len(a), j \in 1..Len(b) :
    (a[i].cmd = b[j].cmd /\ a[i].tier = b[j].tier) => a[i] = b[j]

C16_ReadsDegrade ==
  /\ pc # "threw"
  /\ \A r \in ReadingsTaken :
       /\ r.out.vmstat = VmStatFailed =>
            /\ r.ram.free = 0 /\ r.ram.wired = 0 /\ r.ram.active = 0
            /\ r.ram.inactive = 0 /\ r.ram.compressed = 0
            /\ r.ram.used = 0 /\ r.ram.usedPct = 0
       /\ r.out.pressure = PressureFailed =>
            r.pressure.level = "unknown" /\ r.pressure.freePct = Null

\* the places of the event ev in the log
At(ev) == {i \in 1..Len(log) : log[i].ev = ev}

\* C17: in free-ram and deep-clean-ram the before snapshot is read first,
\* before any authorization step; the immediate snapshot is read only right
\* after the purge that succeeded and before the settle delay; the
\* stabilized snapshot is read only after the settle delay; when
\* purgeRamSmart fails no later snapshot is read and no settle delay waited.
C17_ReadsOrdered ==
  InCleanup =>
    /\ before.taken /\ At("before") = {1}
    /\ \A i \in At("immediate") :
         /\ log[i - 1].ev \in {"purge", "dialog"} /\ log[i - 1].ok
         /\ \A j \in At("sleep 12000") : i < j
         /\ \A j \in 1..Len(log) : log[j].ev \in TierEvents => j < i
    /\ \A i \in At("stabilized") :
         /\ log[i - 1].ev = "sleep 12000"
         /\ \E j \in At("immediate") : j < i - 1
    /\ \A i \in At("sleep 12000") : \E j \in At("immediate") : j < i
    /\ metrics.immediate.taken <=> At("immediate") # {}
    /\ metrics.stabilized.taken <=> At("stabilized") # {}
    /\ Cardinality(At("immediate")) <= 1 /\ Cardinality(At("stabilized")) <= 1
    /\ (tiers.ret.ran /\ ~tiers.ret.success) =>
         /\ At("immediate") = {} /\ At("stabilized") = {} /\ At("sleep 12000") = {}
         /\ metrics = NoMetrics

\* deep-clean-ram read all three snapshots after the dialog's purge succeeded
C17_Witness ==
  /\ handler = "deep-clean-ram" /\ pc = "done"
  /\ tiers.method = "osascript-admin"
  /\ At("before") # {} /\ At("immediate") # {} /\ At("stabilized") # {}

\* C18: in deep-clean-ram every signal is sent before the grace wait and the
\* grace wait is over before the credential probe or any other authorization
\* step; whether a signaled process exited is never looked at: every process
\* signaled is in stopped, alive or not, also in the result, and the result's
\* success is that of purgeRamSmart.
C18_SignalThenWait ==
  handler = "deep-clean-ram" =>
    /\ Cardinality(At("wait 1200")) <= 1
    /\ \A k \in At("kill") : \A w \in At("wait 1200") : k < w
    /\ \A t \in 1..Len(log) :
         log[t].ev \in TierEvents => \E w \in At("wait 1200") : w < t
    /\ {stopped[i].pid : i \in 1..Len(stopped)} = {s.pid : s \in signals}
    /\ pc = "done" =>
         /\ result.value.stopped = stopped
         /\ result.value.skipped = skipped
         /\ result.value.success = tiers.ret.success

\* deep-clean-ram succeeded with a process it signaled still running, and
\* the process is reported stopped
C18_Witness ==
  /\ handler = "deep-clean-ram" /\ pc = "done"
  /\ result.value.success
  /\ \E i \in 1..Len(result.value.stopped) : result.value.stopped[i].pid \in DOMAIN procs

\* the number of skipped entries with the reason 'termination failed'
TerminationFailures ==
  Cardinality({i \in 1..Len(skipped) : skipped[i].reason = "termination failed"})

\* a step of the loop on an admitted candidate that process.kill cannot
\* signal
C19_ThrowIsSkipped ==
  (/\ handler = "deep-clean-ram" /\ pc = "loop" /\ next <= Len(targetPids)
   /\ next' = next + 1
   /\ Admissible(targetPids[next], procs)
   /\ ~procs[parseInt10(targetPids[next]).v].killable)
    => /\ skipped' = Append(skipped, [pid |-> Num(parseInt10(targetPids[next]).v),
                                      reason |-> "termination failed"])
       /\ stopped' = stopped
       /\ signals' = signals
       /\ pc' = "loop"

\* C19: when process.kill throws for an admitted candidate, the candidate is
\* appended to skipped with reason 'termination failed' and not to stopped,
\* the loop goes on to the candidates after it, every candidate being
\* handled by the time the loop is over, and the result's success is that of
\* purgeRamSmart however many candidates were skipped.
C19_CandidateFailuresAbsorbed ==
  /\ [](handler = "deep-clean-ram" =>
          /\ pc # "threw"
          /\ TerminationFailures
               = Cardinality({i \in 1..Len(log) : log[i] = Event("kill", FALSE)})
          /\ pc # "loop" => Len(stopped) + Len(skipped) = Len(targetPids)
          /\ pc = "done" => result.value.success = tiers.ret.success)
  /\ [][C19_ThrowIsSkipped]_vars

\* process.kill threw for the first candidate, the second was stopped, and
\* the request succeeded
C19_Witness ==
  /\ handler = "deep-clean-ram" /\ pc = "done"
  /\ Len(skipped) = 1 /\ skipped[1].reason = "termination failed"
  /\ Len(stopped) = 1 /\ targetPids[2] = Num(stopped[1].pid)
  /\ result.value.success

\* how many times the request has run the command cmd
TimesRun(cmd) == Cardinality({i \in 1..Len(answers) : answers[i].cmd = cmd})

\* C20: one invocation of purgeRamSmart runs the credential probe at most
\* once, the credential acquisition (`sudo -A -v`, the one prompt of tier 2)
\* at most once, the native dialog at most once, and the non-interactive
\* purge at most twice, once per credential tier.
C20_NoRetries ==
  InPurge =>
    /\ TimesRun("sudo -n true") <= 1 /\ CountEvents({"probe"}) <= 1
    /\ TimesRun("sudo -A -v") <= 1 /\ CountEvents({"authorize"}) <= 1
    /\ TimesRun("writeFileSync") <= 1
    /\ TimesRun("osascript") <= 1 /\ CountEvents({"dialog"}) <= 1
    /\ TimesRun("sudo -n purge") <= 2 /\ CountEvents({"purge"}) <= 2
    /\ \A t \in 1..2 :
         Cardinality({i \in 1..Len(answers) :
                        answers[i].cmd = "sudo -n purge" /\ answers[i].tier = t}) <= 1
    /\ Len(answers) <= 6

\* the tray's purge ran every command: both purges failed and the dialog
\* succeeded
C20_Witness ==
  /\ handler = "tray-purge" /\ pc = "done"
  /\ TimesRun("sudo -n true") = 1 /\ TimesRun("sudo -n purge") = 2
  /\ TimesRun("sudo -A -v") = 1 /\ TimesRun("osascript") = 1
  /\ tiers.method = "osascript-admin"

\* C21: `sudo -n purge` runs only as the command right after a credential
\* probe that succeeded (tier 1) or right after a credential acquisition that
\* succeeded (tier 2); after a failed acquisition the next command is the
\* native dialog and no purge runs in between.
C21_PurgeNeedsCredential ==
  InPurge =>
    /\ \A i \in At("purge") :
         /\ i > 1
         /\ log[i - 1] \in {Event("probe", TRUE), Event("authorize", TRUE)}
    /\ \A i \in 1..Len(answers) :
         answers[i].cmd = "sudo -n purge" =>
           /\ i > 1
           /\ answers[i - 1].cmd = (IF answers[i].tier = 1 THEN "sudo -n true" ELSE "sudo -A -v")
           /\ ~answers[i - 1].failed
    /\ \A i \in At("authorize") :
         ~log[i].ok =>
           /\ \A j \in At("purge") : j < i
           /\ IF i < Len(log) THEN log[i + 1].ev = "dialog" ELSE pc = "fallback"

\* the acquisition failed (no password given) and the dialog ran next, no
\* purge having run at all
C21_Witness ==
  /\ InPurge /\ pc = "purged"
  /\ tiers.auth.error = "sudo: no password was provided"
  /\ At("purge") = {}
  /\ \E i \in At("authorize") : i < Len(log) /\ log[i + 1].ev = "dialog"

\* C23: every request of free-ram and deep-clean-ram eventually returns a
\* result, after at most five commands of the three tiers and, when it
\* succeeds, exactly one settle delay; when it fails, none.
C23_EventuallyReturns ==
  /\ [](InCleanup =>
          /\ CountEvents(TierEvents) <= 5
          /\ Cardinality(At("sleep 12000")) <= 1
          /\ Cardinality(At("wait 1200")) <= 1
          /\ (pc = "done" /\ result.value.success) => Cardinality(At("sleep 12000")) = 1
          /\ (pc = "done" /\ ~result.value.success) => At("sleep 12000") = {})
  /\ InCleanup ~> (InCleanup /\ pc = "done" /\ result.returned)

\* deep-clean-ram returned success after the settle delay, a process it
\* signaled still running
C23_Witness ==
  /\ handler = "deep-clean-ram" /\ pc = "done" /\ result.returned
  /\ result.value.success
  /\ At("sleep 12000") # {}
  /\ \E i \in 1..Len(stopped) : stopped[i].pid \in DOMAIN procs

\* get-ram-processes replies: every process it lists is marked canQuit
\* exactly when quit-process would pass its guards for that pid
C24_CanQuitIsQuitGuards ==
  (handler = "idle" /\ handler' = "get-ram-processes") =>
    \A i \in 1..Len(result'.value) :
      LET e == result'.value[i]
      IN e.canQuit <=> quitProcessVerdict(Num(e.pid), procs).kill

\* a turn of deep-clean-ram's loop: the candidate is admitted (stopped, or
\* skipped because the signal could not be sent) exactly when quit-process
\* would pass its guards for it
C24_AdmittedIsQuitGuards ==
  (handler = "deep-clean-ram" /\ pc = "loop" /\ next' = next + 1) =>
    LET passes == quitProcessVerdict(targetPids[next], procs).kill
        admitted == \/ Len(stopped') = Len(stopped) + 1
                    \/ /\ Len(skipped') = Len(skipped) + 1
                       /\ skipped'[Len(skipped')].reason = "termination failed"
    IN admitted <=> passes

\* quit-process answers: it got past its guards (it sent the signal, or the
\* signal threw) exactly when deep-clean-ram would admit the pid
C24_QuitIsAdmission ==
  (handler = "idle" /\ handler' = "quit-process") =>
    LET admits == deepCleanVerdict(targetPids'[1], procs).kill
        passed == pc' = "wait" \/ log' # <<>>
    IN passed <=> admits

\* C24: the three places that apply the termination guards agree, whatever
\* the processes running and the pid: quit-process passes its guards exactly
\* when deep-clean-ram admits the pid, and get-ram-processes marks a process
\* canQuit exactly when quit-process would pass its guards for it.
C24_GuardsAgree ==
  /\ [](\A raw \in RawPids :
          quitProcessVerdict(raw, procs).kill <=> deepCleanVerdict(raw, procs).kill)
  /\ [][C24_CanQuitIsQuitGuards]_vars
  /\ [][C24_AdmittedIsQuitGuards]_vars
  /\ [][C24_QuitIsAdmission]_vars

\* get-ram-processes listed the application itself and a deny-listed process
\* of the user as not to be quit, and a process that started later as to be
\* quit
C24_Witness ==
  /\ handler = "get-ram-processes" /\ pc = "done"
  /\ \E i, j, k \in 1..Len(result.value) :
       /\ result.value[i].pid = OwnPid /\ ~result.value[i].canQuit
       /\ result.value[j].user = me /\ result.value[j].pid # OwnPid /\ ~result.value[j].canQuit
       /\ result.value[k].pid = MaxPid /\ result.value[k].canQuit

\* quit-process starts: a pid that fails a guard is answered success=false
\* at once, nothing signaled and no wait; a signal that throws is answered
\* success=false at once; otherwise the signal is sent and the wait begins
C25_GuardsAndSignal ==
  (handler = "idle" /\ handler' = "quit-process") =>
    LET v == quitProcessVerdict(targetPids'[1], procs)
    IN IF ~v.kill
         THEN /\ pc' = "done" /\ ~result'.value.success
              /\ signals' = signals /\ log' = <<>>
         ELSE IF killThrows(procs, v.pid)
           THEN /\ pc' = "done" /\ ~result'.value.success
                /\ signals' = signals /\ log' = <<Event("kill", FALSE)>>
           ELSE /\ pc' = "wait" /\ result' = result
                /\ signals' = signals \cup {Signal(procs, v.pid, "quit-process")}

\* quit-process after its wait: success exactly when the process is gone,
\* 'Process did not exit in time' when it is still there
C25_ExitVerified ==
  (handler = "quit-process" /\ pc = "wait" /\ pc' = "done") =>
    LET pid == parseInt10(targetPids[1]).v
    IN IF pid \in DOMAIN procs
         THEN result'.value = [success |-> FALSE, error |-> "Process did not exit in time"]
         ELSE result'.value.success

C26_OneTimer ==
  /\ Cardinality(timers) <= 1
  /\ \A t \in timers : t.id = trayInterval
  /\ appState = "starting" => timers = {}
  /\ appState = "ready" => (timers # {} <=> (tray.exists /\ ~isSuspended))

\* the system is suspended, the tray exists, no timer is armed
C26_Witness ==
  /\ appState = "ready" /\ tray.exists /\ isSuspended /\ timers = {}
  /\ mainWindow.exists

\* C27: whenever a tray refresh timer is armed, its period is what
\* getTrayRefreshMs gives for the current profile and window state.
C27_PeriodIsCurrent ==
  appState = "ready" =>
    \A t \in timers : t.ms = getTrayRefreshMs(isSuspended, settings, mainWindow)

\* the three profiles
RefreshProfiles == {realTime, balanced, powerSaver}

\* set-refresh-profile: the reply is the argument when it is a profile and
\* 'balanced' otherwise, and what is written to settings.json is the reply
C28_SetNormalizes ==
  (handler = "idle" /\ handler' = "set-refresh-profile") =>
    /\ result'.value.refreshProfile = (IF pids' \in RefreshProfiles THEN pids' ELSE balanced)
    /\ settingsFile' # settingsFile =>
         settingsFile' = JsonFile(TRUE, TRUE, TRUE, result'.value.refreshProfile)

\* get-settings: the reply is the stored profile when it is a profile and
\* 'balanced' otherwise
C28_GetNormalizes ==
  (handler = "idle" /\ handler' = "get-settings") =>
    result'.value.refreshProfile =
      (IF settings.refreshProfile \in RefreshProfiles THEN settings.refreshProfile
       ELSE balanced)

\* C28: for any stored settings and any argument of set-refresh-profile,
\* getRefreshProfile, get-settings and the reply of set-refresh-profile give
\* one of 'real-time', 'balanced', 'power-saver', an unrecognised value
\* being replaced by 'balanced'; what set-refresh-profile persists is
\* already normalized.
C28_ProfileNormalized ==
  /\ [](/\ getRefreshProfile(settings) \in RefreshProfiles
        /\ settings.refreshProfile \notin RefreshProfiles
             => getRefreshProfile(settings) = balanced
        /\ (handler \in {"get-settings", "set-refresh-profile"} /\ pc = "done")
             => result.value.refreshProfile \in RefreshProfiles)
  /\ [][C28_SetNormalizes]_vars
  /\ [][C28_GetNormalizes]_vars

\* settings.json held an unrecognised profile, and get-settings answered
\* 'balanced'
C28_Witness ==
  /\ handler = "get-settings" /\ pc = "done"
  /\ settingsFile.exists /\ settingsFile.valid /\ settingsFile.has
  /\ settings.refreshProfile = settingsFile.refreshProfile
  /\ settings.refreshProfile \notin RefreshProfiles
  /\ result.value.refreshProfile = balanced

\* the ids clean-disk-item deletes for, and the directory of each
\* path-based one
CleanableIds ==
  {"user_cache", "system_logs", "trash", "mail_cache", "xcode_derived", "ios_backups"}
CategoryDir(id) ==
  CASE id = "user_cache" -> userCache
    [] id = "system_logs" -> userLogs
    [] id = "mail_cache" -> mailCache
    [] id = "xcode_derived" -> xcodeDerived
    [] id = "ios_backups" -> iosBackups

\* an id that is none of the six is answered 'Unknown category', and
\* nothing is deleted
C29_UnknownCategory ==
  (handler = "idle" /\ handler' = "clean-disk-item" /\ pids' \notin CleanableIds) =>
    /\ result'.value = [success |-> FALSE, error |-> "Unknown category"]
    /\ files' = files

\* a path-based category: what is removed was inside its directory, the
\* directory is kept, and when the directory could be read every entry that
\* can be removed is removed and the result is a success
C29_OnlyEntries ==
  (handler = "idle" /\ handler' = "clean-disk-item"
     /\ pids' \in CleanableIds \ {"trash"}) =>
    LET dir == CategoryDir(pids')
    IN /\ \A f \in files \ files' : under(f, dir) /\ f # dir
       /\ files' \subseteq files
       /\ dir \in files => dir \in files'
       /\ result'.value.success =>
            \A f \in files : (isChild(f, dir) /\ removable(locked, f)) => f \notin files'
       /\ result'.value.success \/ result'.value.error = "EACCES"

\* C29: clean-disk-item deletes only for the six fixed category ids, any
\* other id is answered {success: false, error: 'Unknown category'} with
\* nothing deleted; for a path-based category only the entries inside the
\* category's directory are removed, the directory is kept, and an entry
\* that cannot be removed neither stops the others nor fails the result.
C29_CleanDiskItem ==
  /\ [][C29_UnknownCategory]_vars
  /\ [][C29_OnlyEntries]_vars

\* uninstall-app: the operations of the request so far
Did(ev) == {i \in 1..Len(log) : log[i].ev = ev}

\* the steps of uninstall-app: nothing is trashed or deleted by the dialog,
\* Cancel is answered {success: false, cancelled: true}, and trashing the
\* leftovers ends in a success
C30_Steps ==
  /\ (handler = "uninstall-app" /\ pc = "confirm" /\ pc' # "confirm") =>
       /\ files' = files
       /\ pc' = "done" => result'.value = [success |-> FALSE, cancelled |-> TRUE]
  /\ (handler = "idle" /\ handler' = "uninstall-app") => files' = files
  /\ (handler = "uninstall-app" /\ pc = "leftovers" /\ pc' = "done") =>
       result'.value.success

\* C30: uninstall-app trashes or deletes nothing before the user confirms,
\* and on Cancel returns {success: false, cancelled: true} with no trash or
\* delete operation; the leftovers are trashed only once the application was
\* trashed; a leftover that cannot be trashed does not fail the result; the
\* privileged rm runs only when trashing the application failed.
C30_Uninstall ==
  /\ [](handler = "uninstall-app" =>
          /\ \A i \in Did("trashItem app") \cup Did("trashItem leftover") \cup Did("rm -rf admin") :
               \E j \in 1..(i - 1) : log[j] = Event("showMessageBox", TRUE)
          /\ \A i \in Did("trashItem leftover") :
               \E j \in 1..(i - 1) : log[j] = Event("trashItem app", TRUE)
          /\ \A i \in Did("rm -rf admin") :
               \E j \in 1..(i - 1) : log[j] = Event("trashItem app", FALSE))
  /\ [][C30_Steps]_vars

\* what two requests that ran at once both touched, one of them writing
Shared ==
  {a.what : a \in {x \in accesses :
                     \E y \in accesses : /\ y.by # x.by /\ y.what = x.what
                                         /\ (x.how = "write" \/ y.how = "write")}}

\* the report of a request is built from the snapshots of that request
OwnSnapshots ==
  \A i \in Invocations :
    (flows[i].pc = "done" /\ flows[i].report.returned) =>
      LET r == flows[i].report.value
      IN /\ r.before.by = i /\ r.before.at = "before"
         /\ r.success => /\ r.after.by = i /\ r.after.at = "immediate"
                         /\ r.stabilized.by = i /\ r.stabilized.at = "stabilized"

\* C22 as stated: two cleanup requests interleaved at their suspension
\* points share nothing but the credential cache, neither writes a variable
\* or a file the other reads or writes, and each report is built from the
\* request's own snapshots.
C22_NothingShared ==
  /\ Shared \subseteq {"credential cache"}
  /\ OwnSnapshots

\* C22, amended: two cleanup requests interleaved at their suspension points
\* share the credential cache, the askpass script, which the request that
\* finds it missing writes once and the other then reads, and the tray,
\* which each refreshes when its purge succeeded; they share nothing else,
\* and each report is built from the request's own snapshots.
C22_SharedState ==
  /\ Shared \subseteq {"credential cache", "askpass script", "tray"}
  /\ Cardinality({a \in accesses : a.what = "askpass script" /\ a.how = "write"}) <= 1
  /\ OwnSnapshots

\* both requests ran at once and returned a success; one wrote the askpass
\* script and the other read it, and both refreshed the tray
C22_Witness ==
  /\ \A i \in Invocations :
       flows[i].pc = "done" /\ flows[i].report.returned /\ flows[i].report.value.success
  /\ {"askpass script", "tray"} \subseteq Shared

====
